---- MODULE Spec2Model ----
(***************************************************************************)
(* Model of the V4 backtest engine: Portfolio (portfolio_v4.py), the       *)
(* allocation planner (allocation_v4.py), the ExecutionEngine              *)
(* (execution_v4.py) and the two driver loops of BacktestEngine            *)
(* (backtest_v4.py).                                                       *)
(*                                                                         *)
(* Python floats are modelled as exact rationals [n |-> numerator,         *)
(* d |-> denominator], always kept in lowest terms with d > 0.             *)
(***************************************************************************)
EXTENDS Integers, Sequences, FiniteSets, TLC

VARIABLES
    cash,             \* Portfolio.cash
    positions,        \* Portfolio.positions: symbol -> [quantity, cost_basis, value]
    history,          \* Portfolio.history: date -> [cash, positions, total_value]
    trade_log,        \* ExecutionEngine.trade_log.trades
    commission_rate,  \* module-level commission_rate (settings)
    slippage_rate,    \* module-level slippage_rate (settings)
    plan,             \* the last call of the allocation planner: arguments and result
    bt,               \* BacktestEngine: the configuration and the locals of the date loop
    date_count,       \* the number of dates the date loop has begun (run_backtest, line 204)
    last              \* record of the operation that produced this state (history variable)

vars ==
    <<cash, positions, history, trade_log, commission_rate, slippage_rate, plan, bt,
      date_count, last>>

----------------------------------------------------------------------------
(* Bounds of the model *)

Symbols == {"A", "B"}
MaxOrders == 2       \* longest order list handed to execute_orders
MaxSteps == 2        \* operations per engine behaviour
MaxDate == 2         \* dates 1..MaxDate
LastDay == 5         \* the date axis of the drivers lies in the calendar days 1..LastDay
GapDay == 4          \* a calendar day that is not a trading day (not on the date axis)
MaxDelay == 2        \* execution_delay ranges over 0..MaxDelay

----------------------------------------------------------------------------
(* Exact rational arithmetic standing for Python float arithmetic *)

Abs(x) == IF x < 0 THEN -x ELSE x

RECURSIVE GCD(_, _)
GCD(a, b) == IF b = 0 THEN a ELSE GCD(b, a % b)

Norm(n, d) ==
    LET g == GCD(Abs(n), d)
    IN  IF n = 0 THEN [n |-> 0, d |-> 1] ELSE [n |-> n \div g, d |-> d \div g]

R(k) == [n |-> k, d |-> 1]
Frac(n, d) == Norm(n, d)

RNeg(a) == [n |-> -a.n, d |-> a.d]
RAdd(a, b) ==
    LET g == GCD(a.d, b.d)
    IN  Norm(a.n * (b.d \div g) + b.n * (a.d \div g), (a.d \div g) * b.d)
RSub(a, b) == RAdd(a, RNeg(b))
RMul(a, b) ==
    LET g1 == GCD(Abs(a.n), b.d)
        g2 == GCD(Abs(b.n), a.d)
        h1 == IF g1 = 0 THEN 1 ELSE g1
        h2 == IF g2 = 0 THEN 1 ELSE g2
    IN  Norm((a.n \div h1) * (b.n \div h2), (a.d \div h2) * (b.d \div h1))
RInv(a) == IF a.n > 0 THEN [n |-> a.d, d |-> a.n] ELSE [n |-> -a.d, d |-> -a.n]
RDiv(a, b) == RMul(a, RInv(b))
RAbs(a) == [n |-> Abs(a.n), d |-> a.d]
RLt(a, b) ==
    LET g == GCD(a.d, b.d)
    IN  a.n * (b.d \div g) < b.n * (a.d \div g)
RLe(a, b) == ~RLt(b, a)
RGt(a, b) == RLt(b, a)
RGe(a, b) == ~RLt(a, b)
RZero == R(0)
ROne == R(1)
RFloor(a) == a.n \div a.d
\* Python int(x): truncation towards zero
RInt(a) == IF a.n >= 0 THEN a.n \div a.d ELSE -((-a.n) \div a.d)
\* Python round(x): nearest integer, ties to the even neighbour
RRound(a) ==
    LET f == a.n \div a.d
        twice == 2 * (a.n - f * a.d)
    IN  IF twice < a.d THEN f
        ELSE IF twice > a.d THEN f + 1
        ELSE IF f % 2 = 0 THEN f ELSE f + 1
RMin(a, b) == IF RLt(b, a) THEN b ELSE a

Min(a, b) == IF b < a THEN b ELSE a

RECURSIVE RSumSeq(_)
RSumSeq(s) == IF s = <<>> THEN RZero ELSE RAdd(Head(s), RSumSeq(Tail(s)))

----------------------------------------------------------------------------
(* orders_v4.py *)

NoDate == 0          \* order_date=None
Today == -1          \* date.today(): the wall-clock date, never a date of the axis
\* the price argument of an Order: None, a number, or (when a date is passed
\* in the price position) a date
NoPrice == [kind |-> "none", v |-> [n |-> 0, d |-> 1]]
NumPrice(p) == [kind |-> "num", v |-> p]
DatePrice(d) == [kind |-> "date", v |-> [n |-> d, d |-> 1]]

\* Order.__init__(symbol, quantity, price, order_type, order_date)
Order(symbol, quantity, price, order_type, order_date) ==
    [symbol |-> symbol, quantity |-> quantity, price |-> price,
     order_type |-> order_type,
     order_date |-> IF order_date = NoDate THEN Today ELSE order_date]

\* Trade.__init__(order, execution_date, execution_price, commission, amount);
\* held_before and cash_delta are history fields: the quantity of the symbol
\* held when the trade was applied to the Portfolio, and the change of
\* Portfolio.cash made by applying it.
Trade(order, execution_date, execution_price, commission, amount) ==
    [symbol |-> order.symbol, quantity |-> order.quantity,
     order_date |-> order.order_date, order_type |-> order.order_type,
     execution_date |-> execution_date, execution_price |-> execution_price,
     commission |-> commission, amount |-> amount, pnl |-> RZero,
     held_before |-> 0, cash_delta |-> RZero]

----------------------------------------------------------------------------
(* portfolio_v4.py : a portfolio value is [cash, positions] *)

Pf(c, p) == [cash |-> c, positions |-> p]

DelKey(f, k) == [x \in (DOMAIN f) \ {k} |-> f[x]]
SetKey(f, k, v) == [x \in (DOMAIN f) \cup {k} |-> IF x = k THEN v ELSE f[x]]

HeldQty(pos, symbol) == IF symbol \in DOMAIN pos THEN pos[symbol].quantity ELSE 0

\* add_position that sets the cost basis of a position to the latest price
add_position_last_price(pos, symbol, quantity, price) ==
    SetKey(pos, symbol,
           [quantity |-> HeldQty(pos, symbol) + quantity, cost_basis |-> price,
            value |-> RMul(R(HeldQty(pos, symbol) + quantity), price)])

\* Portfolio.add_position(symbol, quantity, price) with cost_basis = price
add_position(pos, symbol, quantity, price) ==
    IF symbol \in DOMAIN pos
    THEN LET current_quantity == pos[symbol].quantity
             current_cost == RMul(pos[symbol].cost_basis, R(current_quantity))
             new_quantity == current_quantity + quantity
             new_cost == RAdd(current_cost, RMul(R(quantity), price))
         IN  IF new_quantity # 0
             THEN SetKey(pos, symbol,
                         [quantity |-> new_quantity,
                          cost_basis |-> RDiv(new_cost, R(new_quantity)),
                          value |-> RMul(R(new_quantity), price)])
             ELSE DelKey(pos, symbol)
    ELSE SetKey(pos, symbol,
                [quantity |-> quantity, cost_basis |-> price,
                 value |-> RMul(R(quantity), price)])

\* remove_position that keeps a position whose quantity has reached 0
remove_position_keeps_empty(pos, symbol, quantity, price) ==
    IF symbol \in DOMAIN pos /\ quantity <= pos[symbol].quantity
    THEN [positions |->
             SetKey(pos, symbol,
                    [quantity |-> pos[symbol].quantity - quantity,
                     cost_basis |-> pos[symbol].cost_basis,
                     value |-> RMul(R(pos[symbol].quantity - quantity), price)]),
          success |-> TRUE,
          pnl |-> RMul(RSub(price, pos[symbol].cost_basis), R(quantity))]
    ELSE [positions |-> pos, success |-> FALSE, pnl |-> RZero]

\* remove_position without the "quantity <= current_quantity" test
remove_position_unchecked(pos, symbol, quantity, price) ==
    IF symbol \in DOMAIN pos
    THEN LET current_quantity == pos[symbol].quantity
             cost_basis == pos[symbol].cost_basis
             new_quantity == current_quantity - quantity
         IN  [positions |->
                 IF new_quantity > 0
                 THEN SetKey(pos, symbol,
                             [quantity |-> new_quantity, cost_basis |-> cost_basis,
                              value |-> RMul(R(new_quantity), price)])
                 ELSE DelKey(pos, symbol),
              success |-> TRUE,
              pnl |-> RMul(RSub(price, cost_basis), R(quantity))]
    ELSE [positions |-> pos, success |-> FALSE, pnl |-> RZero]

\* Portfolio.remove_position(symbol, quantity, price) -> (success, pnl)
remove_position(pos, symbol, quantity, price) ==
    IF symbol \in DOMAIN pos
    THEN LET current_quantity == pos[symbol].quantity
         IN  IF quantity <= current_quantity
             THEN LET cost_basis == pos[symbol].cost_basis
                      pnl == RMul(RSub(price, cost_basis), R(quantity))
                      new_quantity == current_quantity - quantity
                  IN  [positions |->
                          IF new_quantity > 0
                          THEN SetKey(pos, symbol,
                                      [quantity |-> new_quantity,
                                       cost_basis |-> cost_basis,
                                       value |-> RMul(R(new_quantity), price)])
                          ELSE DelKey(pos, symbol),
                       success |-> TRUE, pnl |-> pnl]
             ELSE [positions |-> pos, success |-> FALSE, pnl |-> RZero]
    ELSE [positions |-> pos, success |-> FALSE, pnl |-> RZero]

\* update_from_trade, the sell branch: the cash is credited whatever
\* remove_position returned
SellUpdate(newCash, r) ==
    [pf |-> Pf(newCash, r.positions), success |-> r.success, pnl |-> r.pnl]

\* Portfolio.update_from_trade(trade) -> (success, pnl)
update_from_trade(pf, trade) ==
    IF trade.quantity > 0
    THEN [pf |-> Pf(RSub(pf.cash, trade.amount),
                    add_position(pf.positions, trade.symbol,
                                 trade.quantity, trade.execution_price)),
          success |-> TRUE, pnl |-> RZero]
    ELSE SellUpdate(RSub(pf.cash, trade.amount),
                    remove_position(pf.positions, trade.symbol,
                                    Abs(trade.quantity), trade.execution_price))

----------------------------------------------------------------------------
(* execution_v4.py *)

\* PercentSlippageModel.calculate_slippage(order, price)
calculate_slippage(order, price) ==
    IF order.quantity > 0
    THEN RMul(price, RAdd(ROne, slippage_rate))
    ELSE RMul(price, RSub(ROne, slippage_rate))

\* PercentCommissionModel.calculate_commission(order, execution_price)
calculate_commission(order, execution_price) ==
    RAbs(RMul(RMul(R(order.quantity), execution_price), commission_rate))

Invalid == [valid |-> FALSE, order |-> Order("", 0, NoPrice, "", NoDate)]

\* ExecutionEngine.validate_sell_order(order, prices, execution_date)
validate_sell_order(pf, order, prices) ==
    IF order.symbol \notin DOMAIN prices THEN Invalid
    ELSE IF order.symbol \notin DOMAIN pf.positions
            \/ pf.positions[order.symbol].quantity <= 0 THEN Invalid
    ELSE LET sell_quantity == Abs(order.quantity)
             current_quantity == pf.positions[order.symbol].quantity
         IN  IF sell_quantity > current_quantity
             THEN [valid |-> TRUE,
                   order |-> Order(order.symbol, -current_quantity, order.price,
                                   order.order_type, order.order_date)]
             ELSE [valid |-> TRUE, order |-> order]

\* validate_buy_order: the order clipped to the affordable number of shares
ClippedBuyOrder(order, max_shares) ==
    IF max_shares <= 0 THEN Invalid
    ELSE [valid |-> TRUE,
          order |-> Order(order.symbol, max_shares, order.price,
                          order.order_type, order.order_date)]

\* validate_buy_order: the comparison of the total amount with the available cash
CheckBuyAmount(order, available_cash, execution_price, commission) ==
    IF RGt(RAdd(RMul(R(order.quantity), execution_price), commission), available_cash)
    THEN IF RLe(available_cash, commission) THEN Invalid
         ELSE ClippedBuyOrder(order,
                  RInt(RDiv(RSub(available_cash, commission), execution_price)))
    ELSE [valid |-> TRUE, order |-> order]

\* validate_buy_order with the commission of a single share in place of the
\* commission of the requested quantity
CheckBuyAtPrice_one_share_commission(order, available_cash, execution_price) ==
    CheckBuyAmount(order, available_cash, execution_price,
                   RMul(execution_price, commission_rate))

\* validate_buy_order: the commission is computed on the requested quantity
CheckBuyAtPrice(order, available_cash, execution_price) ==
    CheckBuyAmount(order, available_cash, execution_price,
                   calculate_commission(order, execution_price))

\* validate_buy_order that clips to the number of shares affordable at the
\* cost of one share with its own commission
ClipToAffordable(order, available_cash, one_share_cost) ==
    IF RLe(RMul(R(order.quantity), one_share_cost), available_cash)
    THEN [valid |-> TRUE, order |-> order]
    ELSE ClippedBuyOrder(order, RInt(RDiv(available_cash, one_share_cost)))

validate_buy_order_per_share_commission(order, prices, available_cash) ==
    IF order.symbol \notin DOMAIN prices THEN Invalid
    ELSE ClipToAffordable(order, available_cash,
                          RMul(calculate_slippage(order, prices[order.symbol]),
                               RAdd(ROne, commission_rate)))

\* validate_buy_order without the comparison against the available cash
validate_buy_order_no_cash_check(order, prices, available_cash) ==
    IF order.symbol \notin DOMAIN prices THEN Invalid
    ELSE [valid |-> TRUE, order |-> order]

\* ExecutionEngine.validate_buy_order(order, prices, execution_date, available_cash)
validate_buy_order(order, prices, available_cash) ==
    IF order.symbol \notin DOMAIN prices THEN Invalid
    ELSE CheckBuyAtPrice(order, available_cash,
                         calculate_slippage(order, prices[order.symbol]))

\* execute_orders: the Trade of a validated sell, amount = quantity * price - commission
SellTrade(order, execution_date, execution_price, commission) ==
    Trade(order, execution_date, execution_price, commission,
          RSub(RMul(R(order.quantity), execution_price), commission))

\* execute_orders: the Trade of a validated buy, amount = quantity * price + commission
BuyTrade(order, execution_date, execution_price, commission) ==
    Trade(order, execution_date, execution_price, commission,
          RAdd(RMul(R(order.quantity), execution_price), commission))

SellTradeAtPrice(order, execution_date, execution_price) ==
    SellTrade(order, execution_date, execution_price,
              calculate_commission(order, execution_price))

\* the Trade of a validated buy built without a commission
BuyTradeAtPrice_no_commission(order, execution_date, execution_price) ==
    BuyTrade(order, execution_date, execution_price, RZero)

BuyTradeAtPrice(order, execution_date, execution_price) ==
    BuyTrade(order, execution_date, execution_price,
             calculate_commission(order, execution_price))

\* execute_orders, first loop, one order: v is the result of validate_sell_order
KeepSellTrade(v, execution_date, prices, rest) ==
    IF ~v.valid THEN rest
    ELSE <<SellTradeAtPrice(v.order, execution_date,
                            calculate_slippage(v.order, prices[v.order.symbol]))>>
         \o rest

\* execute_orders, first loop: validate every sell order against the portfolio
\* as it is before any trade of the batch is applied, and build its Trade
RECURSIVE BuildSellTrades(_, _, _, _)
BuildSellTrades(pf, sell_orders, execution_date, prices) ==
    IF sell_orders = <<>> THEN <<>>
    ELSE KeepSellTrade(validate_sell_order(pf, Head(sell_orders), prices),
                       execution_date, prices,
                       BuildSellTrades(pf, Tail(sell_orders), execution_date, prices))

\* the trade logged with a pnl from which the commission is subtracted
Recorded_pnl_net_of_commission(st, trade, u) ==
    [trade EXCEPT !.pnl = RSub(u.pnl, trade.commission),
                  !.held_before = HeldQty(st.pf.positions, trade.symbol),
                  !.cash_delta = RSub(u.pf.cash, st.pf.cash)]

\* the trade as it is logged: its pnl and the two history fields filled in
Recorded(st, trade, u) ==
    [trade EXCEPT !.pnl = u.pnl,
                  !.held_before = HeldQty(st.pf.positions, trade.symbol),
                  !.cash_delta = RSub(u.pf.cash, st.pf.cash)]

\* execute_orders: u is the result of portfolio.update_from_trade(trade); the
\* trade is logged and returned only if the update succeeded
LogIfSuccess(st, trade, u) ==
    IF u.success
    THEN [pf |-> u.pf, log |-> Append(st.log, Recorded(st, trade, u)),
          executed |-> Append(st.executed, Recorded(st, trade, u))]
    ELSE [st EXCEPT !.pf = u.pf]

\* execute_orders: one trade applied; st = [pf, log, executed]
ApplyTrade(st, trade) == LogIfSuccess(st, trade, update_from_trade(st.pf, trade))

\* execute_orders, second loop: apply the sell trades
RECURSIVE ApplySellTrades(_, _)
ApplySellTrades(st, sell_trades) ==
    IF sell_trades = <<>> THEN st
    ELSE ApplySellTrades(ApplyTrade(st, Head(sell_trades)), Tail(sell_trades))

\* execute_orders, third loop, one order: v is the result of validate_buy_order
ProcessBuy(st, v, execution_date, prices) ==
    IF ~v.valid THEN st
    ELSE ApplyTrade(st, BuyTradeAtPrice(v.order, execution_date,
                            calculate_slippage(v.order, prices[v.order.symbol])))

\* the third loop taking the buy orders from the end of the list to its front
RECURSIVE ProcessBuys_last_first(_, _, _, _)
ProcessBuys_last_first(st, buy_orders, execution_date, prices) ==
    IF buy_orders = <<>> THEN st
    ELSE ProcessBuys_last_first(
             ProcessBuy(st, validate_buy_order(buy_orders[Len(buy_orders)], prices,
                                               st.pf.cash),
                        execution_date, prices),
             SubSeq(buy_orders, 1, Len(buy_orders) - 1), execution_date, prices)

\* execute_orders, third loop: validate each buy against the live cash, apply it
RECURSIVE ProcessBuys(_, _, _, _)
ProcessBuys(st, buy_orders, execution_date, prices) ==
    IF buy_orders = <<>> THEN st
    ELSE ProcessBuys(ProcessBuy(st, validate_buy_order(Head(buy_orders), prices,
                                                       st.pf.cash),
                                execution_date, prices),
                     Tail(buy_orders), execution_date, prices)

IsSell(o) == o.quantity < 0
IsBuy(o) == o.quantity > 0

\* execute_orders with the two phases swapped: the buys are processed first
SellsAfterBuys(st, orders, execution_date, prices) ==
    ApplySellTrades(st, BuildSellTrades(st.pf, SelectSeq(orders, IsSell),
                                        execution_date, prices))

execute_orders_buys_first(pf, log, orders, execution_date, prices) ==
    IF orders = <<>> THEN [pf |-> pf, log |-> log, executed |-> <<>>]
    ELSE SellsAfterBuys(ProcessBuys([pf |-> pf, log |-> log, executed |-> <<>>],
                                    SelectSeq(orders, IsBuy), execution_date, prices),
                        orders, execution_date, prices)

\* ExecutionEngine.execute_orders(orders, execution_date, prices) -> executed trades
execute_orders(pf, log, orders, execution_date, prices) ==
    IF orders = <<>> THEN [pf |-> pf, log |-> log, executed |-> <<>>]
    ELSE LET sell_orders == SelectSeq(orders, IsSell)
             buy_orders == SelectSeq(orders, IsBuy)
             sell_trades == BuildSellTrades(pf, sell_orders, execution_date, prices)
             afterSells == ApplySellTrades([pf |-> pf, log |-> log, executed |-> <<>>],
                                           sell_trades)
         IN  ProcessBuys(afterSells, buy_orders, execution_date, prices)

\* mark_to_market that values a position without a price at 0
MarkedPositions_zero_unpriced(pos, prices) ==
    [s \in DOMAIN pos |->
        IF s \in DOMAIN prices
        THEN [pos[s] EXCEPT !.value = RMul(R(pos[s].quantity), prices[s])]
        ELSE [pos[s] EXCEPT !.value = RZero]]

\* Portfolio.mark_to_market(current_date, prices): the refreshed positions
MarkedPositions(pos, prices) ==
    [s \in DOMAIN pos |->
        IF s \in DOMAIN prices
        THEN [pos[s] EXCEPT !.value = RMul(R(pos[s].quantity), prices[s])]
        ELSE pos[s]]

RECURSIVE RSumSet(_, _)
RSumSet(f, S) ==
    IF S = {} THEN RZero
    ELSE LET x == CHOOSE y \in S : TRUE IN RAdd(f[x], RSumSet(f, S \ {x}))

PositionsValue(pos) == RSumSet([s \in DOMAIN pos |-> pos[s].value], DOMAIN pos)

\* a snapshot whose total value leaves the positions out
Snapshot_cash_only(c, pos) ==
    [cash |-> c, positions |-> pos, total_value |-> c]

\* Portfolio.mark_to_market(current_date, prices): the snapshot stored in history
Snapshot(c, pos) ==
    [cash |-> c, positions |-> pos, total_value |-> RAdd(c, PositionsValue(pos))]

\* mark_to_market that keeps the snapshot of the current date only
mark_to_market_latest_only(pf, hist, current_date, prices) ==
    [pf |-> Pf(pf.cash, MarkedPositions(pf.positions, prices)),
     history |-> [d \in {current_date} |->
                     Snapshot(pf.cash, MarkedPositions(pf.positions, prices))]]

mark_to_market(pf, hist, current_date, prices) ==
    LET marked == MarkedPositions(pf.positions, prices)
    IN  [pf |-> Pf(pf.cash, marked),
         history |-> SetKey(hist, current_date, Snapshot(pf.cash, marked))]

----------------------------------------------------------------------------
(* allocation_v4.py *)

\* the planner without a cash buffer
no_cash_buffer == ROne

\* cash_buffer_factor = 0.999
cash_buffer_factor == Frac(999, 1000)
\* compare_positions without a noise filter
no_epsilon == RZero

\* the noise filter of compare_positions: abs(dollar_change) > 0.01
dollar_change_epsilon == Frac(1, 100)

\* the dollar change computed as if nothing were held
DollarChange_ignores_holdings(current_positions, target_allocations, portfolio_value, prices, symbol) ==
    RMul(IF symbol \in DOMAIN target_allocations
         THEN target_allocations[symbol] ELSE RZero,
         portfolio_value)

\* compare_positions(current_positions, target_allocations, portfolio_value, prices):
\* the dollar change of one symbol
DollarChange(current_positions, target_allocations, portfolio_value, prices, symbol) ==
    LET current_weight ==
            IF symbol \in DOMAIN current_positions
            THEN IF symbol \in DOMAIN prices
                 THEN RDiv(RMul(R(current_positions[symbol].quantity), prices[symbol]),
                           portfolio_value)
                 ELSE RDiv(current_positions[symbol].value, portfolio_value)
            ELSE RZero
        target_weight ==
            IF symbol \in DOMAIN target_allocations
            THEN target_allocations[symbol] ELSE RZero
    IN  RMul(RSub(target_weight, current_weight), portfolio_value)

\* compare_positions, line 79: a change is kept if it exceeds the noise filter
KeepChange(symbol, dollar_change, rest) ==
    IF RGt(RAbs(dollar_change), dollar_change_epsilon)
    THEN <<[symbol |-> symbol, change |-> dollar_change]>> \o rest
    ELSE rest

\* compare_positions -> dollar_changes, an insertion-ordered dict modelled as a
\* sequence of [symbol, change]; iter_order is the order in which the set
\* set(current) | set(target) happens to be iterated. Dividing by a zero
\* portfolio value raises ZeroDivisionError (raised = TRUE).
RECURSIVE ChangesInOrder(_, _, _, _, _)
ChangesInOrder(current_positions, target_allocations, portfolio_value, prices, iter_order) ==
    IF iter_order = <<>> THEN <<>>
    ELSE IF Head(iter_order) \notin
                (DOMAIN current_positions) \cup (DOMAIN target_allocations)
    THEN ChangesInOrder(current_positions, target_allocations, portfolio_value,
                        prices, Tail(iter_order))
    ELSE KeepChange(Head(iter_order),
                    DollarChange(current_positions, target_allocations,
                                 portfolio_value, prices, Head(iter_order)),
                    ChangesInOrder(current_positions, target_allocations,
                                   portfolio_value, prices, Tail(iter_order)))

\* compare_positions writing the zero weights of the held symbols into the
\* map it was given
compare_positions_in_place(current_positions, target_allocations, portfolio_value, prices, iter_order) ==
    IF DOMAIN current_positions # {} /\ portfolio_value = RZero
    THEN [raised |-> TRUE, dollar_changes |-> <<>>,
          target_allocations |-> target_allocations]
    ELSE [raised |-> FALSE,
          dollar_changes |-> ChangesInOrder(current_positions, target_allocations,
                                            portfolio_value, prices, iter_order),
          target_allocations |->
              [s \in (DOMAIN target_allocations) \cup (DOMAIN current_positions) |->
                  IF s \in DOMAIN target_allocations
                  THEN target_allocations[s] ELSE RZero]]

compare_positions(current_positions, target_allocations, portfolio_value, prices, iter_order) ==
    IF DOMAIN current_positions # {} /\ portfolio_value = RZero
    THEN [raised |-> TRUE, dollar_changes |-> <<>>,
          target_allocations |-> target_allocations]
    ELSE [raised |-> FALSE,
          dollar_changes |-> ChangesInOrder(current_positions, target_allocations,
                                            portfolio_value, prices, iter_order),
          \* lines 35, 66-68: the zero weights of held symbols missing from the
          \* target map are added to a copy; the caller's map stays as it was
          target_allocations |-> target_allocations]

\* the quantity sold without the cap at the held quantity
CapAtHeld_uncapped(max_sellable, current_qty) == max_sellable

\* generate_orders, lines 129-165: the quantity sold for one sell change (0: skipped)
CapAtHeld(max_sellable, current_qty) ==
    IF max_sellable > current_qty THEN current_qty ELSE max_sellable

SellQuantity(dollar_change, price, current_qty) ==
    CapAtHeld(Abs(RRound(RDiv(dollar_change, price))), current_qty)

\* generate_orders, lines 129-165: the cash a sell is expected to free
NetOfCommission(actual_dollars) ==
    RSub(actual_dollars, RMul(actual_dollars, commission_rate))

\* generate_orders, lines 129-165: one sell change; rest is the result for the
\* later ones
PlanSell(symbol, price, max_sellable, order_date, rest) ==
    IF max_sellable <= 0 THEN rest
    ELSE [orders |-> <<Order(symbol, -max_sellable, DatePrice(order_date),
                             "MARKET", NoDate)>> \o rest.orders,
          cash_freed |-> RAdd(NetOfCommission(RAbs(RMul(R(-max_sellable), price))),
                              rest.cash_freed)]

\* generate_orders, lines 129-165: sell orders and cash_freed
RECURSIVE PlanSells(_, _, _, _)
PlanSells(sell_changes, prices, order_date, current_positions) ==
    IF sell_changes = <<>> THEN [orders |-> <<>>, cash_freed |-> RZero]
    ELSE PlanSell(Head(sell_changes).symbol, prices[Head(sell_changes).symbol],
                  SellQuantity(Head(sell_changes).change,
                               prices[Head(sell_changes).symbol],
                               HeldQty(current_positions, Head(sell_changes).symbol)),
                  order_date,
                  PlanSells(Tail(sell_changes), prices, order_date, current_positions))

\* the cost of a purchase with its commission: cost + cost * commission_rate
WithCommission(cost) == RAdd(cost, RMul(cost, commission_rate))

\* the cost of quantity shares at the slippage-adjusted price
AllInCost(quantity, adjusted_price) == WithCommission(RMul(R(quantity), adjusted_price))

EstimateAt(symbol, dollar_change, price, adjusted_price, quantity) ==
    [symbol |-> symbol, quantity |-> quantity, price |-> price,
     adjusted_price |-> adjusted_price,
     total_cost |-> AllInCost(quantity, adjusted_price),
     single_share_cost |-> RMul(adjusted_price, RAdd(ROne, commission_rate)),
     dollar_change |-> dollar_change]

\* generate_orders, lines 177-211: the estimate of one buy change (quantity 0: skipped)
BuyEstimate(symbol, dollar_change, price) ==
    EstimateAt(symbol, dollar_change, price,
               RMul(price, RAdd(ROne, slippage_rate)),
               RRound(RDiv(dollar_change, price)))

KeepEstimate(e, rest) == IF e.quantity <= 0 THEN rest ELSE <<e>> \o rest

RECURSIVE BuyEstimates(_, _)
BuyEstimates(buy_changes, prices) ==
    IF buy_changes = <<>> THEN <<>>
    ELSE KeepEstimate(BuyEstimate(Head(buy_changes).symbol, Head(buy_changes).change,
                                  prices[Head(buy_changes).symbol]),
                      BuyEstimates(Tail(buy_changes), prices))

RECURSIVE TotalCost(_)
TotalCost(estimates) ==
    IF estimates = <<>> THEN RZero
    ELSE RAdd(Head(estimates).total_cost, TotalCost(Tail(estimates)))

\* sorted(..., key=dollar_change, reverse=True): stable, equal keys keep their order
RECURSIVE InsertByPriority(_, _)
InsertByPriority(sorted, e) ==
    IF sorted = <<>> THEN <<e>>
    ELSE IF RGe(Head(sorted).dollar_change, e.dollar_change)
         THEN <<Head(sorted)>> \o InsertByPriority(Tail(sorted), e)
         ELSE <<e>> \o sorted

\* the candidates taken smallest dollar_change first
RECURSIVE InsertAscending(_, _)
InsertAscending(sorted, e) ==
    IF sorted = <<>> THEN <<e>>
    ELSE IF RLe(Head(sorted).dollar_change, e.dollar_change)
         THEN <<Head(sorted)>> \o InsertAscending(Tail(sorted), e)
         ELSE <<e>> \o sorted

RECURSIVE SortAscending(_)
SortAscending(estimates) ==
    IF estimates = <<>> THEN <<>>
    ELSE InsertAscending(SortAscending(SubSeq(estimates, 1, Len(estimates) - 1)),
                         estimates[Len(estimates)])

RECURSIVE SortByPriority(_)
SortByPriority(estimates) ==
    IF estimates = <<>> THEN <<>>
    ELSE InsertByPriority(SortByPriority(SubSeq(estimates, 1, Len(estimates) - 1)),
                          estimates[Len(estimates)])

\* the proportional pass without the lift of an empty scaled order to one share
AtLeastOneShare_never(scaled_quantity, estimate, remaining_cash) == scaled_quantity

\* generate_orders, lines 236-240: a candidate scaled to nothing still gets
\* one share if one share is affordable
AtLeastOneShare(scaled_quantity, estimate, remaining_cash) ==
    IF scaled_quantity < 1 /\ RLe(estimate.single_share_cost, remaining_cash)
    THEN 1 ELSE scaled_quantity

ScaledQuantity(estimate, scaling_factor, remaining_cash) ==
    AtLeastOneShare(RInt(RMul(R(estimate.quantity), scaling_factor)),
                    estimate, remaining_cash)

\* generate_orders, lines 242-257: the scaled quantity is accepted if its cost
\* fits into the remaining cash
AcceptIfAffordable(acc, estimate, scaled_quantity, adjusted_total) ==
    IF scaled_quantity > 0 /\ RLe(adjusted_total, acc.remaining_cash)
    THEN [adjusted |-> Append(acc.adjusted,
                              [symbol |-> estimate.symbol,
                               quantity |-> scaled_quantity,
                               original |-> estimate.quantity]),
          remaining_cash |-> RSub(acc.remaining_cash, adjusted_total)]
    ELSE acc

AcceptScaled(acc, estimate, scaled_quantity) ==
    AcceptIfAffordable(acc, estimate, scaled_quantity,
                       AllInCost(scaled_quantity, estimate.adjusted_price))

\* generate_orders, lines 230-257: proportional pass; acc = [adjusted, remaining_cash],
\* adjusted a sequence of [symbol, quantity, original]
RECURSIVE ScalePass(_, _, _)
ScalePass(acc, prioritized, scaling_factor) ==
    IF prioritized = <<>> THEN acc
    ELSE ScalePass(AcceptScaled(acc, Head(prioritized),
                                ScaledQuantity(Head(prioritized), scaling_factor,
                                               acc.remaining_cash)),
                   Tail(prioritized), scaling_factor)

IndexOfSymbol(adjusted, symbol) ==
    IF \E i \in 1..Len(adjusted) : adjusted[i].symbol = symbol
    THEN CHOOSE i \in 1..Len(adjusted) : adjusted[i].symbol = symbol
    ELSE 0

\* generate_orders, lines 266-281: the shares added to the accepted order i
AddShares(acc, estimate, i, additional_shares) ==
    IF additional_shares > 0
    THEN [adjusted |-> [acc.adjusted EXCEPT ![i].quantity = @ + additional_shares],
          remaining_cash |-> RSub(acc.remaining_cash,
                                  AllInCost(additional_shares, estimate.adjusted_price))]
    ELSE acc

\* the top-up of one candidate without the cap at its original quantity
TopUp_uncapped(acc, estimate, i) ==
    IF i # 0 /\ RLe(estimate.single_share_cost, acc.remaining_cash)
    THEN AddShares(acc, estimate, i,
                   RInt(RDiv(acc.remaining_cash, estimate.single_share_cost)))
    ELSE acc

\* generate_orders, lines 262-281: one candidate of the top-up pass; i is the
\* index of its accepted order, 0 if it has none
TopUp(acc, estimate, i) ==
    IF i # 0 /\ RLe(estimate.single_share_cost, acc.remaining_cash)
    THEN AddShares(acc, estimate, i,
                   Min(RInt(RDiv(acc.remaining_cash, estimate.single_share_cost)),
                       estimate.quantity - acc.adjusted[i].quantity))
    ELSE acc

\* generate_orders, lines 259-281: top-up pass
RECURSIVE TopUpPass(_, _)
TopUpPass(acc, prioritized) ==
    IF prioritized = <<>> THEN acc
    ELSE TopUpPass(TopUp(acc, Head(prioritized),
                         IndexOfSymbol(acc.adjusted, Head(prioritized).symbol)),
                   Tail(prioritized))

\* generate_orders, lines 283-298: orders of the accepted (scaled) quantities
RECURSIVE AdjustedOrders(_, _, _)
AdjustedOrders(adjusted, prices, order_date) ==
    IF adjusted = <<>> THEN <<>>
    ELSE (IF Head(adjusted).quantity > 0
          THEN <<Order(Head(adjusted).symbol, Head(adjusted).quantity,
                       NumPrice(prices[Head(adjusted).symbol]), "MARKET", order_date)>>
          ELSE <<>>)
         \o AdjustedOrders(Tail(adjusted), prices, order_date)

\* generate_orders, lines 302-316: orders of the unscaled estimates
RECURSIVE EstimateOrders(_, _)
EstimateOrders(estimates, order_date) ==
    IF estimates = <<>> THEN <<>>
    ELSE <<Order(Head(estimates).symbol, Head(estimates).quantity,
                 NumPrice(Head(estimates).price), "MARKET", order_date)>>
         \o EstimateOrders(Tail(estimates), order_date)

\* the result of a planner call that has not been made
NoPlan ==
    [orders |-> <<>>, path |-> "none", estimates |-> <<>>, cash_freed |-> RZero,
     buffered_cash |-> RZero, scaling_factor |-> ROne, first_pass |-> <<>>,
     first_pass_cash |-> RZero, adjusted |-> <<>>, remaining_cash |-> RZero,
     raised |-> FALSE, dollar_changes |-> <<>>, target_allocations |-> <<>>]

\* generate_orders, lines 283-298: the result of the scaling path; pass1 and
\* pass2 are the results of the proportional pass and of the top-up pass
ScaledResult(base, prices, order_date, prioritized, scaling_factor, pass1, pass2) ==
    [base EXCEPT
        !.orders = base.orders \o AdjustedOrders(pass2.adjusted, prices, order_date),
        !.path = "scaled", !.estimates = prioritized,
        !.scaling_factor = scaling_factor,
        !.first_pass = pass1.adjusted,
        !.first_pass_cash = pass1.remaining_cash,
        !.adjusted = pass2.adjusted,
        !.remaining_cash = pass2.remaining_cash]

\* generate_orders, lines 259-261: the top-up pass runs if cash remains
AfterFirstPass(base, prices, order_date, prioritized, scaling_factor, pass1) ==
    ScaledResult(base, prices, order_date, prioritized, scaling_factor, pass1,
                 IF RGt(pass1.remaining_cash, RZero)
                 THEN TopUpPass(pass1, prioritized) ELSE pass1)

\* the scaling path with the two passes spending the cash without its buffer
ScaleOrders_spends_unbuffered(base, prices, order_date, prioritized, scaling_factor) ==
    AfterFirstPass(base, prices, order_date, prioritized, scaling_factor,
                   ScalePass([adjusted |-> <<>>,
                              remaining_cash |-> RDiv(base.buffered_cash,
                                                      cash_buffer_factor)],
                             prioritized, scaling_factor))

\* generate_orders, lines 214-298: the scaling path
ScaleOrders(base, prices, order_date, prioritized, scaling_factor) ==
    AfterFirstPass(base, prices, order_date, prioritized, scaling_factor,
                   ScalePass([adjusted |-> <<>>, remaining_cash |-> base.buffered_cash],
                             prioritized, scaling_factor))

\* the buys planned as in generate_orders, but the buy orders of the unscaled
\* path put in front of the sell orders
PlanBuys_buys_in_front(base, prices, order_date, total_available_cash, buy_changes, estimates, total_estimated_cost) ==
    IF RLe(total_available_cash, RZero) \/ buy_changes = <<>> THEN base
    ELSE IF RGt(total_estimated_cost, base.buffered_cash) /\ estimates # <<>>
    THEN ScaleOrders(base, prices, order_date, SortByPriority(estimates),
                     RDiv(base.buffered_cash, total_estimated_cost))
    ELSE [base EXCEPT
             !.orders = EstimateOrders(estimates, order_date) \o base.orders,
             !.path = "unscaled", !.estimates = estimates]

\* generate_orders, lines 167-318: the buys; base is the result with the sell
\* orders only
PlanBuys(base, prices, order_date, total_available_cash, buy_changes, estimates, total_estimated_cost) ==
    IF RLe(total_available_cash, RZero) \/ buy_changes = <<>> THEN base
    ELSE IF RGt(total_estimated_cost, base.buffered_cash) /\ estimates # <<>>
    THEN ScaleOrders(base, prices, order_date, SortByPriority(estimates),
                     RDiv(base.buffered_cash, total_estimated_cost))
    ELSE [base EXCEPT
             !.orders = base.orders \o EstimateOrders(estimates, order_date),
             !.path = "unscaled", !.estimates = estimates]

\* generate_orders after the sell loop: sells = [orders, cash_freed]
AfterSells(dollar_changes, prices, order_date, sells, total_available_cash, buy_changes, estimates) ==
    PlanBuys([NoPlan EXCEPT !.orders = sells.orders, !.path = "no_buys",
                            !.cash_freed = sells.cash_freed,
                            !.buffered_cash = RMul(total_available_cash,
                                                   cash_buffer_factor),
                            !.dollar_changes = dollar_changes],
             prices, order_date, total_available_cash, buy_changes, estimates,
             TotalCost(estimates))

\* generate_orders, lines 167-211: the cash after the sells and the buy estimates
EstimateBuys(dollar_changes, prices, order_date, available_cash, sells, buy_changes) ==
    AfterSells(dollar_changes, prices, order_date, sells,
               RAdd(available_cash, sells.cash_freed),
               buy_changes, BuyEstimates(buy_changes, prices))

IsBuyChange(c, prices) == c.symbol \in DOMAIN prices /\ RGt(c.change, RZero)
IsSellChange(c, prices, current_positions) ==
    /\ c.symbol \in DOMAIN prices
    /\ RLt(c.change, RZero)
    /\ c.symbol \in DOMAIN current_positions
    /\ current_positions[c.symbol].quantity > 0

\* generate_orders(dollar_changes, prices, order_date, available_cash, current_positions).
\* Besides the returned orders the result keeps the values of the local
\* variables the properties speak about.
generate_orders(dollar_changes, prices, order_date, available_cash, current_positions) ==
    EstimateBuys(dollar_changes, prices, order_date, available_cash,
                 PlanSells(SelectSeq(dollar_changes,
                                     LAMBDA c : IsSellChange(c, prices, current_positions)),
                           prices, order_date, current_positions),
                 SelectSeq(dollar_changes, LAMBDA c : IsBuyChange(c, prices)))

\* Portfolio.get_total_value(prices)
get_total_value(pf, prices) ==
    RAdd(pf.cash,
         RSumSet([s \in DOMAIN pf.positions |->
                     IF s \in DOMAIN prices
                     THEN RMul(R(pf.positions[s].quantity), prices[s])
                     ELSE pf.positions[s].value],
                 DOMAIN pf.positions))

\* np.isclose(current_sum, 1.0): |current_sum - 1| <= 1e-8 + 1e-5 * 1, that is
\* 1001 / 10^8, computed without leaving the integer width
IsCloseToOne(current_sum) ==
    \E d \in {RAbs(RSub(current_sum, ROne))} :
        \/ d.n = 0
        \/ /\ d.n > 0
           /\ \/ d.d \div d.n > 99900
              \/ d.d \div d.n = 99900 /\ 1001 * (d.d % d.n) >= 100 * d.n

\* get_weights, line 353: the weights of a portfolio whose total value is zero
ZeroValueWeights(pf) ==
    [k \in DOMAIN pf.positions \cup {"Cash"} |->
        IF k = "Cash" /\ pf.cash = RZero /\ DOMAIN pf.positions = {}
        THEN ROne ELSE RZero]

\* get_weights, lines 355-369: value / total_value of every position and the
\* cash weight, which is never negative
RawWeights(pf, prices, total_value) ==
    [k \in DOMAIN pf.positions \cup {"Cash"} |->
        IF k = "Cash"
        THEN (IF RLt(RDiv(pf.cash, total_value), RZero)
              THEN RZero ELSE RDiv(pf.cash, total_value))
        ELSE RDiv(IF k \in DOMAIN prices
                  THEN RMul(R(pf.positions[k].quantity), prices[k])
                  ELSE pf.positions[k].value,
                  total_value)]

\* get_weights, lines 371-377: the weights are divided by their sum when the
\* sum is neither close to one nor zero
Normalized(weights, current_sum) ==
    IF ~IsCloseToOne(current_sum) /\ current_sum # RZero
    THEN [k \in DOMAIN weights |-> RDiv(weights[k], current_sum)]
    ELSE weights

\* get_weights: total_value is get_total_value(prices)
WeightsOfTotal(pf, prices, total_value) ==
    IF total_value = RZero
    THEN ZeroValueWeights(pf)
    ELSE Normalized(RawWeights(pf, prices, total_value),
                    RSumSet(RawWeights(pf, prices, total_value),
                            DOMAIN pf.positions \cup {"Cash"}))

\* Portfolio.get_weights(prices); prices = None is the empty price map, which
\* makes every position count with its stored value
get_weights(pf, prices) ==
    WeightsOfTotal(pf, prices, get_total_value(pf, prices))

\* calculate_rebalance_orders, lines 355-367: cmp is the result of compare_positions
OrdersForChanges(pf, target_allocations, prices, order_date, cmp) ==
    IF cmp.raised
    THEN [NoPlan EXCEPT !.raised = TRUE, !.target_allocations = target_allocations]
    ELSE [generate_orders(cmp.dollar_changes, prices, order_date,
                          pf.cash, pf.positions)
             EXCEPT !.target_allocations = cmp.target_allocations]

\* calculate_rebalance_orders(portfolio, target_allocations, prices, order_date)
calculate_rebalance_orders(pf, target_allocations, prices, order_date, iter_order) ==
    OrdersForChanges(pf, target_allocations, prices, order_date,
                     compare_positions(pf.positions, target_allocations,
                                       get_total_value(pf, prices), prices, iter_order))

----------------------------------------------------------------------------
(* Inputs of the engine-level specification *)

RateValues == {RZero, Frac(1, 10)}
CapitalValues == {R(5)}
\* price maps: both symbols priced, or B without a price
PriceMaps ==
    {[s \in Symbols |-> IF s = "A" THEN R(1) ELSE R(2)],
     [s \in {"A"} |-> R(2)]}
Quantities == {-2, -1, 2}
\* orders handed to the engine, all planned on date 1
EngineOrders == {Order(s, q, NoPrice, "MARKET", 1) : s \in Symbols, q \in Quantities}
OrderLists == UNION {[1..n -> EngineOrders] : n \in 0..MaxOrders}

\* history variable: the operation that produced the state, the trades it
\* returned and the length of the trade log before it
NoLast ==
    [op |-> "init", step |-> 0, date |-> 1, executed |-> <<>>, pre_log_len |-> 0,
     \* the cash and the positions before the operation, the orders it was
     \* given (or planned) and the prices it was given
     pre_cash |-> RZero, pre_positions |-> <<>>, orders |-> <<>>, prices |-> <<>>,
     \* used by the driver loops only: the state right after the mark-to-market
     \* of the date-step, and what the step planned
     mark_cash |-> RZero, mark_positions |-> <<>>, mark_log_len |-> 0,
     should_rebalance |-> FALSE, invoked |-> FALSE,
     execution_date |-> NoDate]

\* the orders in which a set of symbols can be iterated
SymOrders ==
    {sq \in [1..Cardinality(Symbols) -> Symbols] :
        \A i, j \in 1..Cardinality(Symbols) : i # j => sq[i] # sq[j]}

\* no planner call yet
NoRequest ==
    [op |-> "none", target_allocations |-> <<>>, prices |-> <<>>,
     dollar_changes |-> <<>>, available_cash |-> RZero, result |-> NoPlan,
     weights |-> <<>>]

\* no driver loop running
NoBacktest ==
    [loop |-> "none", status |-> "idle", i |-> 1, execution_delay |-> 0,
     rebalance_dates |-> {}, signals_dict |-> <<>>,
     signals |-> [bound |-> FALSE, v |-> <<>>], pending_orders |-> <<>>,
     dropped |-> {}, weights_history |-> <<>>]

Init ==
    /\ commission_rate \in RateValues
    /\ slippage_rate \in RateValues
    /\ cash \in CapitalValues
    /\ positions = <<>>
    /\ history = <<>>
    /\ trade_log = <<>>
    /\ plan = NoRequest
    /\ bt = NoBacktest
    /\ date_count = 0
    /\ last = NoLast

NextDates == {d \in {last.date, last.date + 1} : d <= MaxDate}

\* one call of ExecutionEngine.execute_orders
ExecuteOrders ==
    /\ last.step < MaxSteps
    /\ \E prices \in PriceMaps :
         \E orders \in OrderLists :
            \E r \in {execute_orders(Pf(cash, positions), trade_log, orders,
                                     last.date, prices)} :
                /\ cash' = r.pf.cash
                /\ positions' = r.pf.positions
                /\ trade_log' = r.log
                /\ last' = [NoLast EXCEPT !.op = "execute_orders",
                                           !.step = last.step + 1,
                                           !.date = last.date,
                                           !.executed = r.executed,
                                           !.pre_log_len = Len(trade_log),
                                           !.pre_cash = cash,
                                           !.pre_positions = positions,
                                           !.orders = orders,
                                           !.prices = prices]
    /\ UNCHANGED <<history, commission_rate, slippage_rate, plan, bt, date_count>>

\* one call of Portfolio.mark_to_market
MarkToMarket ==
    /\ last.step < MaxSteps
    /\ \E d \in NextDates, prices \in PriceMaps :
         \E r \in {mark_to_market(Pf(cash, positions), history, d, prices)} :
             /\ positions' = r.pf.positions
             /\ history' = r.history
             /\ last' = [NoLast EXCEPT !.op = "mark_to_market",
                                        !.step = last.step + 1,
                                        !.date = d,
                                        !.pre_log_len = Len(trade_log),
                                        !.pre_cash = cash,
                                        !.pre_positions = positions,
                                        !.prices = prices]
    /\ UNCHANGED <<cash, trade_log, commission_rate, slippage_rate, plan, bt,
                   date_count>>

Next == ExecuteOrders \/ MarkToMarket

Spec == Init /\ [][Next]_vars

----------------------------------------------------------------------------
(* Properties of the engine-level specification Spec *)

LogIndices == 1..Len(trade_log)
ExecutedIndices == 1..Len(last.executed)

\* C1: starting from cash >= 0 (Init, and no other operation lowers cash),
\* portfolio cash is >= 0 whenever execute_orders has returned, whatever the
\* order list and the prices were.
C1_CashNonNegative ==
    last.op = "execute_orders" => RGe(cash, RZero)

\* C1 witness: execute_orders has returned after filling a buy that left less
\* cash than any share costs.
C1_Witness ==
    /\ last.op = "execute_orders"
    /\ \E i \in ExecutedIndices : last.executed[i].quantity > 0
    /\ RLt(cash, R(1))

\* C2: every sell Trade in the TradeLog has |quantity| <= the quantity of its
\* symbol held in the Portfolio just before the Trade was applied.
C2_NoOversell ==
    \A i \in LogIndices :
        trade_log[i].quantity < 0 => -trade_log[i].quantity <= trade_log[i].held_before

\* C2 witness: one batch has executed two sells of the same symbol.
C2_Witness ==
    /\ last.op = "execute_orders"
    /\ \E i, j \in ExecutedIndices :
          /\ i < j
          /\ last.executed[i].quantity < 0
          /\ last.executed[j].quantity < 0
          /\ last.executed[i].symbol = last.executed[j].symbol

\* C3 (as claimed): a sell Trade of q shares at execution price p with
\* commission c increases cash by exactly q*p - c, never by more than q*p.
C3_SellCreditsNetProceeds ==
    \A i \in LogIndices :
        trade_log[i].quantity < 0 =>
            LET gross == RMul(R(-trade_log[i].quantity), trade_log[i].execution_price)
            IN  /\ trade_log[i].cash_delta = RSub(gross, trade_log[i].commission)
                /\ RLe(trade_log[i].cash_delta, gross)

----------------------------------------------------------------------------
(* backtest_v4.py : the two date loops of BacktestEngine *)

\* price_data.index: the trading days, in increasing order
AxisDates == {d \in 1..LastDay : d # GapDay}
AxisLen == Cardinality(AxisDates)
DateAt(i) == CHOOSE d \in AxisDates : Cardinality({e \in AxisDates : e < d}) = i - 1

\* price_data.loc[d]: A alternates between 1 and 2, B stays at 2
PriceData(d) ==
    [s \in Symbols |-> IF s = "A" THEN (IF d % 2 = 1 THEN ROne ELSE R(2)) ELSE R(2)]

\* the pre-computed target weights: the same target on every date, a target
\* that alternates between the symbols, and a source with an entry for the
\* first date only
SignalsDicts ==
    {[d \in AxisDates |-> [s \in {"A"} |-> ROne]],
     [d \in AxisDates |-> IF d % 2 = 1 THEN [s \in {"A"} |-> ROne]
                                       ELSE [s \in {"B"} |-> ROne]],
     [d \in {1} |-> [s \in Symbols |-> Frac(1, 2)]]}

\* delayed execution without the test that the execution date is on the axis;
\* an execution date without prices falls back to the current date's prices
ExecutionSlot_without_axis_check(execution_delay, current_date) ==
    [execute |-> TRUE,
     date |-> current_date + execution_delay,
     prices_date |-> IF (current_date + execution_delay) \in AxisDates
                     THEN current_date + execution_delay ELSE current_date]

\* run_backtest, lines 293-301: whether, for which date and at which date's
\* prices the planned orders are executed
ExecutionSlot(execution_delay, current_date) ==
    IF execution_delay > 0
    THEN [execute |-> (current_date + execution_delay) \in AxisDates,
          date |-> current_date + execution_delay,
          prices_date |-> current_date + execution_delay]
    ELSE [execute |-> TRUE, date |-> current_date, prices_date |-> current_date]

\* the loop status after the body of the current date
Finished(b) == IF b.i = AxisLen THEN "done" ELSE "running"

\* a date without an entry in the source is read as a target of zero for
\* every symbol
SignalsAt_missing_is_zero_target(b, current_date) ==
    IF current_date \in b.rebalance_dates
    THEN [bound |-> TRUE,
          v |-> IF current_date \in DOMAIN b.signals_dict
                THEN b.signals_dict[current_date] ELSE [s \in Symbols |-> RZero]]
    ELSE b.signals

\* run_backtest, lines 244-251: signals is assigned on rebalance dates only and
\* keeps its value from one date to the next
SignalsAt(b, current_date) ==
    IF current_date \in b.rebalance_dates
    THEN [bound |-> TRUE,
          v |-> IF current_date \in DOMAIN b.signals_dict
                THEN b.signals_dict[current_date] ELSE <<>>]
    ELSE b.signals

\* a cell of weights_history that an aligned assignment left without a value
NaN == [n |-> 0, d |-> 0]

\* weights_history as both loops create it: a row of zeros for every date
ZeroWeights == [d \in AxisDates |-> [s \in Symbols |-> RZero]]

\* run_backtest, lines 229-234: the row of the current date, one cell for every
\* column of price_data
WeightsRow(pf) ==
    IF RGt(get_total_value(pf, <<>>), RZero)
    THEN [s \in Symbols |-> IF s \in DOMAIN get_weights(pf, <<>>)
                            THEN get_weights(pf, <<>>)[s] ELSE RZero]
    ELSE [s \in Symbols |-> RZero]

\* run_backtest_with_signals, line 520: the dict of weights is assigned to the
\* row by label; a column without a key gets no value, the key Cash no column
AlignedRow(weights) ==
    [s \in Symbols |-> IF s \in DOMAIN weights THEN weights[s] ELSE NaN]

\* run_backtest: the loop state after the pending orders of the date were
\* popped, the weights were recorded and signals was (or was not) assigned
LoopState(b, current_date, signals, marked) ==
    [b EXCEPT !.pending_orders = IF current_date \in DOMAIN b.pending_orders
                                 THEN DelKey(b.pending_orders, current_date)
                                 ELSE b.pending_orders,
              !.weights_history = [@ EXCEPT ![current_date] = WeightsRow(marked.pf)],
              !.signals = signals]

\* history variable of a run_backtest step: pend is the result of executing the
\* pending orders, marked the result of the mark-to-market
StepRecord(pf, log, b, current_date, pend, marked) ==
    [NoLast EXCEPT !.op = "run_backtest", !.date = current_date,
                   !.pre_log_len = Len(log),
                   !.pre_cash = pf.cash, !.pre_positions = pf.positions,
                   !.mark_cash = marked.pf.cash,
                   !.mark_positions = marked.pf.positions,
                   !.mark_log_len = Len(pend.log),
                   !.should_rebalance = current_date \in b.rebalance_dates,
                   !.executed = pend.executed]

\* run_backtest, lines 293-304: ex is the result of executing the planned orders
AfterExecution(pf, log, b, current_date, pend, marked, signals, planned, slot, ex) ==
    [pf |-> ex.pf, history |-> marked.history, log |-> ex.log,
     bt |-> [LoopState(b, current_date, signals, marked) EXCEPT
                !.status = Finished(b), !.i = b.i + 1,
                !.dropped = IF slot.execute \/ planned.orders = <<>>
                            THEN @ ELSE @ \cup {current_date}],
     last |-> [StepRecord(pf, log, b, current_date, pend, marked) EXCEPT
                  !.invoked = TRUE,
                  !.orders = planned.orders,
                  !.execution_date = slot.date,
                  !.executed = pend.executed \o ex.executed]]

\* run_backtest, lines 293-301: the planned orders are executed at once, on the
\* execution date of the slot
AfterPlanning(pf, log, b, current_date, pend, marked, signals, planned, slot) ==
    AfterExecution(pf, log, b, current_date, pend, marked, signals, planned, slot,
                   IF slot.execute
                   THEN execute_orders(marked.pf, pend.log, planned.orders,
                                       slot.date, PriceData(slot.prices_date))
                   ELSE [pf |-> marked.pf, log |-> pend.log, executed |-> <<>>])

\* run_backtest, lines 244-304
AfterMarkToMarket(pf, log, b, iter_order, current_date, pend, marked, signals) ==
    IF ~signals.bound
    \* line 279 reads the local variable signals before any assignment
    THEN [pf |-> marked.pf, history |-> marked.history, log |-> pend.log,
          bt |-> [LoopState(b, current_date, signals, marked) EXCEPT !.status = "NameError"],
          last |-> StepRecord(pf, log, b, current_date, pend, marked)]
    ELSE IF DOMAIN signals.v = {}
    \* line 283: signals.empty
    THEN [pf |-> marked.pf, history |-> marked.history, log |-> pend.log,
          bt |-> [LoopState(b, current_date, signals, marked) EXCEPT
                     !.status = Finished(b), !.i = b.i + 1],
          last |-> StepRecord(pf, log, b, current_date, pend, marked)]
    ELSE AfterPlanning(pf, log, b, current_date, pend, marked, signals,
                       calculate_rebalance_orders(marked.pf, signals.v,
                                                  PriceData(current_date),
                                                  current_date, iter_order),
                       ExecutionSlot(b.execution_delay, current_date))

\* run_backtest, line 222
AfterPendingOrders(pf, hist, log, b, iter_order, current_date, pend) ==
    AfterMarkToMarket(pf, log, b, iter_order, current_date, pend,
                      mark_to_market(pend.pf, hist, current_date,
                                     PriceData(current_date)),
                      SignalsAt(b, current_date))

\* run_backtest, lines 214-219: the pending orders of the date
ExecutePending(pf, log, b, current_date) ==
    IF current_date \in DOMAIN b.pending_orders
    THEN execute_orders(pf, log, b.pending_orders[current_date],
                        current_date, PriceData(current_date))
    ELSE [pf |-> pf, log |-> log, executed |-> <<>>]

\* one iteration of the date loop of run_backtest, lines 203-304
run_backtest_step(pf, hist, log, b, iter_order) ==
    AfterPendingOrders(pf, hist, log, b, iter_order, DateAt(b.i),
                       ExecutePending(pf, log, b, DateAt(b.i)))

\* run_backtest_with_signals, lines 502-504: every returned trade is passed to
\* portfolio.update_from_trade
RECURSIVE ApplyTradeResults(_, _)
ApplyTradeResults(pf, trade_results) ==
    IF trade_results = <<>> THEN pf
    ELSE ApplyTradeResults(update_from_trade(pf, Head(trade_results)).pf,
                           Tail(trade_results))

\* run_backtest_with_signals: the loop state after the body of the current date
NextDate(b) == [b EXCEPT !.status = Finished(b), !.i = b.i + 1]

\* run_backtest_with_signals, lines 517-520: the end of a date that was not
\* left by continue
RecordWeights(b, current_date, pf) ==
    [NextDate(b) EXCEPT
        !.weights_history = [@ EXCEPT ![current_date] =
            AlignedRow(get_weights(pf, PriceData(current_date)))]]

\* history variable of a run_backtest_with_signals step that skipped the date
SkippedRecord(pf, log, current_date) ==
    [NoLast EXCEPT !.op = "run_backtest_with_signals",
                   !.date = current_date, !.pre_log_len = Len(log),
                   !.pre_cash = pf.cash, !.pre_positions = pf.positions,
                   !.mark_cash = pf.cash, !.mark_positions = pf.positions,
                   !.mark_log_len = Len(log)]

\* history variable of a run_backtest_with_signals step that planned
PlannedRecord(pf, log, current_date, marked, planned) ==
    [SkippedRecord(pf, log, current_date) EXCEPT
        !.mark_positions = marked.pf.positions,
        !.should_rebalance = TRUE, !.invoked = TRUE,
        !.orders = planned.orders,
        !.execution_date = current_date]

\* run_backtest_with_signals, line 513: remarked is the result of the second
\* mark-to-market
AfterSecondMark(pf, log, b, current_date, marked, planned, ex, remarked) ==
    [pf |-> remarked.pf, history |-> remarked.history, log |-> ex.log,
     bt |-> RecordWeights(b, current_date, remarked.pf),
     last |-> [PlannedRecord(pf, log, current_date, marked, planned) EXCEPT
                  !.executed = ex.executed]]

\* run_backtest_with_signals, lines 502-513: ex is the result of execute_orders
AfterTradeResults(pf, log, b, current_date, marked, planned, ex) ==
    AfterSecondMark(pf, log, b, current_date, marked, planned, ex,
                    mark_to_market(ApplyTradeResults(ex.pf, ex.executed),
                                   marked.history, current_date,
                                   PriceData(current_date)))

\* run_backtest_with_signals, lines 488-513
AfterSignalsPlanning(pf, log, b, current_date, marked, planned) ==
    IF planned.raised \/ planned.orders = <<>>
    \* lines 488-490 (planning failed) or line 493 (nothing to execute)
    THEN [pf |-> marked.pf, history |-> marked.history, log |-> log,
          bt |-> IF planned.raised THEN NextDate(b)
                 ELSE RecordWeights(b, current_date, marked.pf),
          last |-> PlannedRecord(pf, log, current_date, marked, planned)]
    ELSE AfterTradeResults(pf, log, b, current_date, marked, planned,
                           execute_orders(marked.pf, log, planned.orders,
                                          current_date, PriceData(current_date)))

\* run_backtest_with_signals, lines 464-486
AfterFirstMark(pf, log, b, iter_order, current_date, marked) ==
    AfterSignalsPlanning(pf, log, b, current_date, marked,
                         calculate_rebalance_orders(marked.pf,
                                                    b.signals_dict[current_date],
                                                    PriceData(current_date),
                                                    current_date, iter_order))

\* one iteration of the date loop of run_backtest_with_signals, lines 454-520
with_signals_step(pf, hist, log, b, iter_order) ==
    IF DateAt(b.i) \notin DOMAIN b.signals_dict
    \* lines 459-461: no signals for the date, the whole step is skipped
    THEN [pf |-> pf, history |-> hist, log |-> log, bt |-> NextDate(b),
          last |-> SkippedRecord(pf, log, DateAt(b.i))]
    ELSE AfterFirstMark(pf, log, b, iter_order, DateAt(b.i),
                        mark_to_market(pf, hist, DateAt(b.i), PriceData(DateAt(b.i))))

----------------------------------------------------------------------------
(* The driver specification: one run of run_backtest or of                  *)
(* run_backtest_with_signals over the date axis                             *)

Delays == 0..MaxDelay

\* the initial capital of a run: the capital of the engine-level specification
\* and one that buys more than a handful of shares
DriverCapitals == CapitalValues \cup {R(10)}

InitDriver ==
    /\ commission_rate \in RateValues
    /\ slippage_rate \in RateValues
    /\ cash \in DriverCapitals
    /\ positions = <<>>
    /\ history = <<>>
    /\ trade_log = <<>>
    /\ plan = NoRequest
    /\ last = NoLast
    /\ date_count = 0
    /\ \/ \E delay \in Delays, dates \in SUBSET AxisDates, sd \in SignalsDicts :
            bt = [NoBacktest EXCEPT !.loop = "run_backtest", !.status = "running",
                                    !.weights_history = ZeroWeights,
                                    !.execution_delay = delay,
                                    !.rebalance_dates = dates,
                                    !.signals_dict = sd]
       \/ \E sd \in SignalsDicts :
            bt = [NoBacktest EXCEPT !.loop = "run_backtest_with_signals",
                                    !.status = "running", !.signals_dict = sd,
                                    !.weights_history = ZeroWeights]

\* the next date of run_backtest
RunBacktestStep ==
    /\ bt.loop = "run_backtest"
    /\ bt.status = "running"
    /\ \E iter_order \in SymOrders :
         \E r \in {run_backtest_step(Pf(cash, positions), history, trade_log, bt,
                                     iter_order)} :
            /\ cash' = r.pf.cash
            /\ positions' = r.pf.positions
            /\ history' = r.history
            /\ trade_log' = r.log
            /\ bt' = r.bt
            /\ last' = r.last
    /\ date_count' = date_count + 1
    /\ UNCHANGED <<commission_rate, slippage_rate, plan>>

\* the next date of run_backtest_with_signals
WithSignalsStep ==
    /\ bt.loop = "run_backtest_with_signals"
    /\ bt.status = "running"
    /\ \E iter_order \in SymOrders :
         \E r \in {with_signals_step(Pf(cash, positions), history, trade_log, bt,
                                     iter_order)} :
            /\ cash' = r.pf.cash
            /\ positions' = r.pf.positions
            /\ history' = r.history
            /\ trade_log' = r.log
            /\ bt' = r.bt
            /\ last' = r.last
    /\ date_count' = date_count + 1
    /\ UNCHANGED <<commission_rate, slippage_rate, plan>>

NextDriver == RunBacktestStep \/ WithSignalsStep

SpecDriver == InitDriver /\ [][NextDriver]_vars

\* the for statement of a date loop takes the next date of the axis
LoopIteration ==
    /\ bt.status = "running"
    /\ date_count' = date_count + 1

\* the driver loops under the scheduling of a for loop: as long as the loop is
\* running, the next iteration begins
SpecDriverLive ==
    InitDriver /\ [][NextDriver]_vars /\ WF_date_count(LoopIteration)

----------------------------------------------------------------------------
(* The planner specification: one call of the allocation planner on drawn   *)
(* arguments.                                                                *)

Position(quantity, cost_basis, price) ==
    [quantity |-> quantity, cost_basis |-> cost_basis,
     value |-> RMul(R(quantity), price)]

\* portfolios handed to the planner: fresh ones (Scenario A: 100000 cash; no
\* capital at all), portfolios after some buys (Scenario B: 50 B bought at
\* 10), and the portfolio left by run_backtest_with_signals after a buy of 2 A
\* at 1 from a capital of 3 (cash -1, 4 A)
PlannerPortfolios ==
    {Pf(R(100000), <<>>),
     Pf(R(10), <<>>),
     Pf(RZero, <<>>),
     Pf(RZero, [s \in {"B"} |-> Position(50, R(10), R(10))]),
     Pf(R(5), [s \in {"A"} |-> Position(1, ROne, ROne)]),
     Pf(R(3), [s \in Symbols |-> IF s = "A" THEN Position(2, ROne, ROne)
                                           ELSE Position(1, R(2), R(2))]),
     Pf(R(-1), [s \in {"A"} |-> Position(4, ROne, ROne)])}

APrices == {Frac(1, 200), Frac(1, 4), ROne, R(100)}
BPrices == {R(2), R(12)}
\* price maps of the planner: both symbols priced, or B without a price
PlannerPrices ==
    {[s \in Symbols |-> IF s = "A" THEN a ELSE b] : a \in APrices, b \in BPrices}
    \cup {[s \in {"A"} |-> a] : a \in APrices}

\* the price maps drawn for a portfolio: the 100000 of Scenario A is planned
\* at A = 100 only, which keeps every share count within the integer range
PricesFor(c) ==
    IF c = R(100000) THEN {[s \in {"A"} |-> R(100)]} ELSE PlannerPrices

TargetMaps ==
    {<<>>,
     [s \in {"A"} |-> ROne],
     [s \in {"A"} |-> RZero],
     [s \in {"B"} |-> ROne],
     [s \in Symbols |-> Frac(1, 2)]}

InitPlanner ==
    /\ commission_rate \in RateValues
    /\ slippage_rate \in RateValues
    /\ \E pf \in PlannerPortfolios : cash = pf.cash /\ positions = pf.positions
    /\ history = <<>>
    /\ trade_log = <<>>
    /\ plan = NoRequest
    /\ bt = NoBacktest
    /\ date_count = 0
    /\ last = NoLast

\* one call of calculate_rebalance_orders(portfolio, target_allocations, prices, order_date)
CalculateRebalanceOrders ==
    /\ plan.op = "none"
    /\ \E target \in TargetMaps, prices \in PricesFor(cash), iter_order \in SymOrders :
         plan' = [NoRequest EXCEPT
                     !.op = "calculate_rebalance_orders",
                     !.target_allocations = target,
                     !.prices = prices,
                     !.available_cash = cash,
                     !.result = calculate_rebalance_orders(Pf(cash, positions), target,
                                                           prices, 1, iter_order)]
    /\ UNCHANGED <<cash, positions, history, trade_log, commission_rate, slippage_rate,
                   bt, date_count, last>>

\* Scenario D: the two buy candidates and their dollar deltas
ScenarioDDelta(symbol) == IF symbol = "A" THEN R(8000) ELSE R(2000)
ScenarioDPrices == {ROne, R(100), R(300), R(3000), R(8000)}
\* Scenario D: the share of the total estimated cost covered by the available cash
ScenarioDCover == Frac(7, 10)

\* Scenario D: the price map and the dollar changes in iteration order
ScenarioDPriceMap(pa, pb) == [s \in Symbols |-> IF s = "A" THEN pa ELSE pb]
ScenarioDChanges(iter_order) ==
    [i \in 1..Len(iter_order) |->
        [symbol |-> iter_order[i], change |-> ScenarioDDelta(iter_order[i])]]

\* one call of generate_orders(dollar_changes, prices, order_date, available_cash,
\* current_positions) on the arguments of Scenario D
GenerateOrders ==
    /\ plan.op = "none"
    /\ \E pa, pb \in ScenarioDPrices, iter_order \in SymOrders :
         \E available_cash \in
                {RMul(ScenarioDCover,
                      TotalCost(BuyEstimates(ScenarioDChanges(iter_order),
                                             ScenarioDPriceMap(pa, pb))))} :
            plan' = [NoRequest EXCEPT
                        !.op = "generate_orders",
                        !.prices = ScenarioDPriceMap(pa, pb),
                        !.dollar_changes = ScenarioDChanges(iter_order),
                        !.available_cash = available_cash,
                        !.result = generate_orders(ScenarioDChanges(iter_order),
                                                   ScenarioDPriceMap(pa, pb), 1,
                                                   available_cash, positions)]
    /\ UNCHANGED <<cash, positions, history, trade_log, commission_rate, slippage_rate,
                   bt, date_count, last>>

\* dollar changes handed to generate_orders directly: sales far beyond any
\* holding, sales of less than half a share, and a purchase
ChangeValues == {R(-1000), Frac(-1, 10), R(3)}
DrawnChanges(iter_order, ca, cb) ==
    [i \in 1..Len(iter_order) |->
        [symbol |-> iter_order[i],
         change |-> IF iter_order[i] = "A" THEN ca ELSE cb]]

\* one call of generate_orders(dollar_changes, prices, order_date, available_cash,
\* current_positions) on drawn dollar changes, at most one of them a purchase
GenerateOrdersForChanges ==
    /\ plan.op = "none"
    /\ \E prices \in PricesFor(cash), iter_order \in SymOrders, ca, cb \in ChangeValues :
         /\ RLt(ca, RZero) \/ RLt(cb, RZero)
         /\ plan' = [NoRequest EXCEPT
                        !.op = "generate_orders",
                        !.prices = prices,
                        !.dollar_changes = DrawnChanges(iter_order, ca, cb),
                        !.available_cash = cash,
                        !.result = generate_orders(DrawnChanges(iter_order, ca, cb),
                                                   prices, 1, cash, positions)]
    /\ UNCHANGED <<cash, positions, history, trade_log, commission_rate, slippage_rate,
                   bt, date_count, last>>

\* one call of portfolio.get_weights(prices), with a price map or without one
GetWeights ==
    /\ plan.op = "none"
    /\ \E prices \in PricesFor(cash) \cup {<<>>} :
         plan' = [NoRequest EXCEPT
                     !.op = "get_weights",
                     !.prices = prices,
                     !.weights = get_weights(Pf(cash, positions), prices)]
    /\ UNCHANGED <<cash, positions, history, trade_log, commission_rate, slippage_rate,
                   bt, date_count, last>>

NextPlanner ==
    CalculateRebalanceOrders \/ GenerateOrders \/ GenerateOrdersForChanges \/ GetWeights

SpecPlanner == InitPlanner /\ [][NextPlanner]_vars

----------------------------------------------------------------------------
(* Properties of the planner specification SpecPlanner *)

PlannedOrders == plan.result.orders
OrdersFor(symbol) == SelectSeq(PlannedOrders, LAMBDA o : o.symbol = symbol)

\* Scenario A: no positions, cash 100000, A priced 100, target {A: 1.0}, no costs
ScenarioA ==
    /\ plan.op = "calculate_rebalance_orders"
    /\ positions = <<>>
    /\ cash = R(100000)
    /\ plan.prices = [s \in {"A"} |-> R(100)]
    /\ plan.target_allocations = [s \in {"A"} |-> ROne]
    /\ commission_rate = RZero
    /\ slippage_rate = RZero

\* C7 (as claimed): in Scenario A the planner emits exactly one order, a buy
\* of 1000 shares of A.
C7_ScenarioA_Buys1000 ==
    ScenarioA =>
        /\ Len(PlannedOrders) = 1
        /\ PlannedOrders[1].symbol = "A"
        /\ PlannedOrders[1].quantity = 1000

\* C7 (amended): in Scenario A the planner emits exactly one order, a buy of
\* 999 shares of A: the proportional pass spends the whole buffered cash
\* 99900 on 999 shares, so the top-up pass has nothing left to add.
C7_ScenarioA_Buys999 ==
    ScenarioA =>
        /\ Len(PlannedOrders) = 1
        /\ PlannedOrders[1].symbol = "A"
        /\ PlannedOrders[1].quantity = 999
        /\ plan.result.remaining_cash = RZero

\* C7 witness: the planner has been called on Scenario A and took the scaling path.
C7_Witness == ScenarioA /\ plan.result.path = "scaled"

\* the estimate and the accepted quantities of a buy candidate
EstimateOf(symbol) ==
    plan.result.estimates[CHOOSE i \in 1..Len(plan.result.estimates) :
                              plan.result.estimates[i].symbol = symbol]
AcceptedQty(adjusted, symbol) ==
    IF IndexOfSymbol(adjusted, symbol) = 0 THEN 0
    ELSE adjusted[IndexOfSymbol(adjusted, symbol)].quantity

\* Scenario D: generate_orders was called with the deltas 8000 (A) and 2000 (B),
\* both are buy candidates, and the cash covers 70% of the estimated cost
ScenarioD ==
    /\ plan.op = "generate_orders"
    /\ Len(plan.result.estimates) = 2

\* C8 (as claimed): in Scenario D the fill ratio accepted/raw of the 8000-delta
\* symbol is >= the fill ratio of the 2000-delta symbol.
C8_FillRatioOrdered ==
    ScenarioD =>
        RGe(Frac(AcceptedQty(plan.result.adjusted, "A"), EstimateOf("A").quantity),
            Frac(AcceptedQty(plan.result.adjusted, "B"), EstimateOf("B").quantity))

\* C8 (amended): in Scenario D the 8000-delta symbol is served first in both
\* passes: the proportional pass accepts at least floor(raw_qty * scaling_factor)
\* shares of it, and the top-up pass offers it the whole cash left by the
\* proportional pass before the 2000-delta symbol gets any, so that its final
\* quantity is min(raw_qty, first-pass quantity + floor(cash left / one share's
\* all-in cost)), or 0 when not even one share of it was affordable.
C8_LargestDeltaServedFirst ==
    ScenarioD =>
        LET e == EstimateOf("A")
            first == AcceptedQty(plan.result.first_pass, "A")
            final == AcceptedQty(plan.result.adjusted, "A")
        IN  /\ plan.result.path = "scaled"
            /\ plan.result.estimates[1].symbol = "A"
            /\ first >= RFloor(RMul(R(e.quantity), plan.result.scaling_factor))
            /\ first = 0 => /\ final = 0
                            /\ RGt(e.single_share_cost, plan.result.buffered_cash)
            /\ first > 0 =>
                  final = Min(e.quantity,
                              first + RFloor(RDiv(plan.result.first_pass_cash,
                                                  e.single_share_cost)))

\* C8 witness: Scenario D was planned, both candidates were accepted by the
\* proportional pass, the top-up pass could not afford one more share of the
\* 8000-delta symbol and added shares to the 2000-delta symbol, and the
\* 8000-delta symbol ends with the lower fill ratio.
C8_Witness ==
    /\ ScenarioD
    /\ AcceptedQty(plan.result.first_pass, "A") > 0
    /\ AcceptedQty(plan.result.adjusted, "A") < EstimateOf("A").quantity
    /\ AcceptedQty(plan.result.adjusted, "B") > AcceptedQty(plan.result.first_pass, "B")
    /\ RLt(Frac(AcceptedQty(plan.result.adjusted, "A"), EstimateOf("A").quantity),
           Frac(AcceptedQty(plan.result.adjusted, "B"), EstimateOf("B").quantity))

\* a held, priced symbol whose target weight is 0 or which is absent from the target map
ToLiquidate(symbol) ==
    /\ plan.op = "calculate_rebalance_orders"
    /\ HeldQty(positions, symbol) > 0
    /\ symbol \in DOMAIN plan.prices
    /\ (symbol \in DOMAIN plan.target_allocations
           => plan.target_allocations[symbol] = RZero)

FullLiquidation(symbol) ==
    /\ Len(OrdersFor(symbol)) = 1
    /\ OrdersFor(symbol)[1].quantity = -HeldQty(positions, symbol)

\* C10 (as claimed): for a held position of H > 0 shares of a priced symbol
\* with target weight 0 (or absent from the target map) the planner emits
\* exactly one order for the symbol, a sell of -H.
C10_ZeroTargetLiquidates ==
    \A symbol \in Symbols : ToLiquidate(symbol) => FullLiquidation(symbol)

\* C10 (amended): the same, provided the position is worth more than the
\* 0.01 noise threshold at the current price (H * price > 0.01) and the
\* portfolio's total value is not zero; otherwise no order is emitted for it.
C10_ZeroTargetLiquidatesAboveNoise ==
    \A symbol \in Symbols :
        ToLiquidate(symbol) =>
            IF /\ RGt(RMul(R(HeldQty(positions, symbol)), plan.prices[symbol]),
                      dollar_change_epsilon)
               /\ get_total_value(Pf(cash, positions), plan.prices) # RZero
            THEN FullLiquidation(symbol)
            ELSE OrdersFor(symbol) = <<>>

\* C10 witness: the planner liquidates a held symbol that is absent from a
\* non-empty target map.
C10_Witness ==
    \E symbol \in Symbols :
        /\ ToLiquidate(symbol)
        /\ symbol \notin DOMAIN plan.target_allocations
        /\ DOMAIN plan.target_allocations # {}
        /\ FullLiquidation(symbol)

----------------------------------------------------------------------------
(* Properties of the driver specification SpecDriver *)

\* the trades appended to the trade log by the last date-step after its snapshot
StepTrades == SubSeq(trade_log, last.mark_log_len + 1, Len(trade_log))

RECURSIVE SumAmounts(_)
SumAmounts(trades) ==
    IF trades = <<>> THEN RZero
    ELSE RAdd(Head(trades).amount, SumAmounts(Tail(trades)))

RECURSIVE SumQuantities(_, _)
SumQuantities(trades, symbol) ==
    IF trades = <<>> THEN 0
    ELSE (IF Head(trades).symbol = symbol THEN Head(trades).quantity ELSE 0)
         + SumQuantities(Tail(trades), symbol)

\* the last date-step of run_backtest planned orders under a positive
\* execution delay for an execution date on the axis
PlannedWithDelay ==
    /\ last.op = "run_backtest"
    /\ bt.execution_delay > 0
    /\ last.orders # <<>>
    /\ last.execution_date \in AxisDates

\* C4 (as claimed): with execution_delay > 0 the orders planned on a date
\* wait in the pending queue under their execution date: the date-step that
\* planned them leaves cash and positions as its mark-to-market left them,
\* and when the snapshot of a date is recorded no trade with a later
\* execution date has been applied.
C4_DelayedOrdersWaitInQueue ==
    /\ PlannedWithDelay =>
          /\ cash = last.mark_cash
          /\ positions = last.mark_positions
          /\ last.execution_date \in DOMAIN bt.pending_orders
    /\ (last.op = "run_backtest" /\ bt.execution_delay > 0) =>
          \A i \in 1..last.mark_log_len : trade_log[i].execution_date <= last.date

\* C5 (as claimed): a date-step of run_backtest on a date outside the
\* rebalance schedule is mark-only: the planner is not invoked and no trade
\* is made after the mark-to-market.
C5_NonRebalanceDateIsMarkOnly ==
    (last.op = "run_backtest" /\ ~last.should_rebalance) =>
        /\ ~last.invoked
        /\ last.orders = <<>>
        /\ StepTrades = <<>>
        /\ cash = last.mark_cash

\* C6 (as claimed): in both driver loops the trades returned for a date are
\* applied exactly once: over the date-step cash changes by minus the sum of
\* their amounts and each symbol's held quantity by the sum of their quantities.
C6_TradesAppliedOnce ==
    last.op \in {"run_backtest", "run_backtest_with_signals"} =>
        /\ RSub(cash, last.pre_cash) = RNeg(SumAmounts(last.executed))
        /\ \A symbol \in Symbols :
              HeldQty(positions, symbol) - HeldQty(last.pre_positions, symbol)
                  = SumQuantities(last.executed, symbol)

\* C9: orders planned on a date whose execution date (date + execution_delay)
\* is not on the date axis are never executed: the step that planned them
\* leaves cash, positions and the trade log as its mark-to-market left them,
\* nothing is queued for later, and the trade log never holds a trade for
\* such an execution date.
C9_OffAxisOrdersNeverExecute ==
    /\ (last.op = "run_backtest" /\ last.invoked /\ last.execution_date \notin AxisDates) =>
          /\ cash = last.mark_cash
          /\ positions = last.mark_positions
          /\ StepTrades = <<>>
    /\ DOMAIN bt.pending_orders = {}
    /\ \A i \in LogIndices : trade_log[i].execution_date \in AxisDates
    /\ \A d \in bt.dropped :
          \A i \in LogIndices : trade_log[i].execution_date # d + bt.execution_delay

\* C9 witness: a run has ended in which a rebalance planned orders for an
\* execution date off the axis and other orders were executed.
C9_Witness ==
    /\ bt.loop = "run_backtest"
    /\ bt.status = "done"
    /\ bt.dropped # {}
    /\ bt.dropped \subseteq bt.rebalance_dates
    /\ trade_log # <<>>

----------------------------------------------------------------------------
(* Further properties of the engine-level specification Spec *)

\* C11: every snapshot recorded by mark_to_market satisfies
\* total_value = cash + the sum of the values of the snapshot's positions,
\* after any sequence of execute_orders and mark_to_market calls, also when a
\* held symbol had no price on the date of the snapshot.
C11_SnapshotTotalIsCashPlusValues ==
    \A d \in DOMAIN history :
        history[d].total_value =
            RAdd(history[d].cash, PositionsValue(history[d].positions))

\* C11 witness: a snapshot was just recorded with prices that value A at 2 and
\* have no entry for the held symbol B.
C11_Witness ==
    /\ last.op = "mark_to_market"
    /\ last.date \in DOMAIN history
    /\ "B" \in DOMAIN history[last.date].positions
    /\ "A" \in DOMAIN history[last.date].positions
    /\ history[last.date].positions["A"].value =
           RMul(R(history[last.date].positions["A"].quantity), R(2))

\* C12: after any sequence of execute_orders calls every entry of the
\* positions map has a quantity >= 1: no quantity is negative and a position
\* whose quantity reaches 0 is removed from the map.
C12_PositionsHoldAtLeastOneShare ==
    \A s \in DOMAIN positions : positions[s].quantity >= 1

\* C12 witness: execute_orders has just sold the whole holding of a symbol and
\* the symbol is gone from the map, while another symbol is still held.
C12_Witness ==
    /\ last.op = "execute_orders"
    /\ \E i \in ExecutedIndices :
          /\ last.executed[i].quantity < 0
          /\ last.executed[i].held_before = -last.executed[i].quantity
          /\ last.executed[i].symbol \notin DOMAIN positions
    /\ DOMAIN positions # {}

RECURSIVE SumCashDelta(_)
SumCashDelta(trades) ==
    IF trades = <<>> THEN RZero
    ELSE RAdd(Head(trades).cash_delta, SumCashDelta(Tail(trades)))

ExecutedSells == SelectSeq(last.executed, LAMBDA t : t.quantity < 0)
BuysBefore(j) == SelectSeq(SubSeq(last.executed, 1, j - 1), LAMBDA t : t.quantity > 0)
\* the cash just before the j-th returned trade was applied, when no sell
\* was processed after it
CashBeforeExecuted(j) ==
    RSub(cash, SumCashDelta(SubSeq(last.executed, j, Len(last.executed))))

\* C16: within one execute_orders call every sell is processed before any buy,
\* whatever the order of the input list: the trades the call appended to the
\* TradeLog are the returned ones, no sell follows a buy among them, and each
\* buy was validated against (and fits into) a cash balance that includes
\* the proceeds of all executed sells of the batch.
C16_SellsBeforeBuys ==
    last.op = "execute_orders" =>
        /\ SubSeq(trade_log, last.pre_log_len + 1, Len(trade_log)) = last.executed
        /\ \A i, j \in ExecutedIndices :
              (i < j /\ last.executed[i].quantity > 0) => last.executed[j].quantity > 0
        /\ \A j \in ExecutedIndices :
              last.executed[j].quantity > 0 =>
                  /\ RGe(CashBeforeExecuted(j),
                         RAdd(last.pre_cash,
                              RAdd(SumCashDelta(ExecutedSells),
                                   SumCashDelta(BuysBefore(j)))))
                  /\ RLe(last.executed[j].amount, CashBeforeExecuted(j))

\* C16 witness: the input list had a buy before a sell, both were executed,
\* and the buy cost more than the cash held before the call.
C16_Witness ==
    /\ last.op = "execute_orders"
    /\ Len(last.orders) = 2
    /\ last.orders[1].quantity > 0
    /\ last.orders[2].quantity < 0
    /\ Len(last.executed) = 2
    /\ last.executed[1].quantity < 0
    /\ last.executed[2].quantity > 0
    /\ RGt(last.executed[2].amount, last.pre_cash)

\* the sell trades the claim expects of a batch: each sell order of a priced
\* symbol of which something is still held sells min(requested, held)
SellAsClaimed(order, still_held) ==
    [symbol |-> order.symbol, quantity |-> -Min(-order.quantity, still_held)]

RECURSIVE SellsAsClaimed(_, _, _)
SellsAsClaimed(pos, sell_orders, prices) ==
    IF sell_orders = <<>> THEN <<>>
    ELSE IF Head(sell_orders).symbol \in DOMAIN prices
            /\ HeldQty(pos, Head(sell_orders).symbol) > 0
    THEN <<SellAsClaimed(Head(sell_orders), HeldQty(pos, Head(sell_orders).symbol))>>
         \o SellsAsClaimed(
                [pos EXCEPT ![Head(sell_orders).symbol].quantity =
                                @ + SellAsClaimed(Head(sell_orders), @).quantity],
                Tail(sell_orders), prices)
    ELSE SellsAsClaimed(pos, Tail(sell_orders), prices)

ExecutedSellQuantities ==
    [i \in 1..Len(ExecutedSells) |->
        [symbol |-> ExecutedSells[i].symbol, quantity |-> ExecutedSells[i].quantity]]

\* C18 (as claimed): a sell order is never rejected while some quantity of its
\* symbol is held and priced when the order is processed: the sell trades of a
\* batch are, order by order, for min(requested, held) shares, held being what
\* the earlier sells of the batch have left.
C18_SellsClippedNeverRejected ==
    last.op = "execute_orders" =>
        ExecutedSellQuantities =
            SellsAsClaimed(last.pre_positions, SelectSeq(last.orders, IsSell),
                           last.prices)

\* a batch of one buy order of a priced symbol
SingleBuy ==
    /\ last.op = "execute_orders"
    /\ Len(last.orders) = 1
    /\ last.orders[1].quantity > 0
    /\ last.orders[1].symbol \in DOMAIN last.prices
\* its execution price, the cost of one share with that share's commission,
\* the commission of the requested quantity, and the two clipped quantities
BuyPrice == RMul(last.prices[last.orders[1].symbol], RAdd(ROne, slippage_rate))
OneShareCost == RMul(BuyPrice, RAdd(ROne, commission_rate))
AffordableInFull == RLe(RMul(R(last.orders[1].quantity), OneShareCost), last.pre_cash)
MaxAffordable == RFloor(RDiv(last.pre_cash, OneShareCost))
RequestedCommission == RMul(RMul(R(last.orders[1].quantity), BuyPrice), commission_rate)
ClippedQuantity == RFloor(RDiv(RSub(last.pre_cash, RequestedCommission), BuyPrice))
BoughtExactly(quantity) ==
    /\ Len(last.executed) = 1
    /\ last.executed[1].symbol = last.orders[1].symbol
    /\ last.executed[1].quantity = quantity

\* C19 (as claimed): a buy order that cannot be afforded in full is clipped to
\* the maximum affordable whole-share quantity, and is dropped only if even
\* one share (execution price plus that share's commission) costs more than
\* the available cash.
C19_BuyClippedToMaxAffordable ==
    (SingleBuy /\ ~AffordableInFull) =>
        IF MaxAffordable >= 1 THEN BoughtExactly(MaxAffordable)
        ELSE last.executed = <<>>

\* C19 (corrected): a buy order that cannot be afforded in full is clipped to
\* floor((available cash - commission of the requested quantity) / execution
\* price), which is at most the maximum affordable quantity; it is dropped if
\* that quantity is below 1, also when one share would have been affordable.
C19_BuyClippedByRequestedCommission ==
    (SingleBuy /\ ~AffordableInFull) =>
        IF ClippedQuantity >= 1
        THEN BoughtExactly(ClippedQuantity) /\ ClippedQuantity <= MaxAffordable
        ELSE last.executed = <<>>

\* C19 witness: a buy that could not be afforded in full was executed for
\* fewer shares than requested.
C19_Witness ==
    /\ SingleBuy
    /\ ~AffordableInFull
    /\ Len(last.executed) = 1
    /\ last.executed[1].quantity < last.orders[1].quantity
    /\ last.executed[1].quantity = ClippedQuantity

\* C20: for every executed sell Trade, pnl = sold quantity * (execution price -
\* cost basis of the position just before the sell); the commission is not
\* subtracted. (The sells of a batch come before its buys and a sell leaves
\* the cost basis as it is, so the cost basis just before each sell is the
\* one the position had before the call.)
C20_RealizedPnlExcludesCommission ==
    last.op = "execute_orders" =>
        \A i \in ExecutedIndices :
            last.executed[i].quantity < 0 =>
                /\ last.executed[i].symbol \in DOMAIN last.pre_positions
                /\ last.executed[i].pnl =
                       RMul(R(-last.executed[i].quantity),
                            RSub(last.executed[i].execution_price,
                                 last.pre_positions[last.executed[i].symbol].cost_basis))

\* C20 witness: a sell was executed above the cost basis and paid a commission.
C20_Witness ==
    /\ last.op = "execute_orders"
    /\ \E i \in ExecutedIndices :
          /\ last.executed[i].quantity < 0
          /\ RGt(last.executed[i].commission, RZero)
          /\ RGt(last.executed[i].pnl, RZero)

----------------------------------------------------------------------------
(* Further properties of the planner specification SpecPlanner *)

\* the symbols compare_positions looks at, and the dollar delta of one of them
\* for the arguments of the planner call that was made
RequestSymbols == (DOMAIN positions) \cup (DOMAIN plan.target_allocations)
RequestDelta(symbol) ==
    DollarChange(positions, plan.target_allocations,
                 get_total_value(Pf(cash, positions), plan.prices),
                 plan.prices, symbol)
\* every target weight equals the current weight within the epsilon
WeightsOnTarget ==
    /\ plan.op = "calculate_rebalance_orders"
    /\ ~plan.result.raised
    /\ \A s \in RequestSymbols : RLe(RAbs(RequestDelta(s)), Frac(1, 100))

\* C13: if the dollar delta of every symbol in the union of held and targeted
\* symbols is within 0.01, calculate_rebalance_orders returns an empty order
\* list.
C13_OnTargetMeansNoOrders ==
    WeightsOnTarget => PlannedOrders = <<>>

\* C13 witness: the planner was called on a portfolio that holds a position
\* whose delta is within the epsilon but not zero.
C13_Witness ==
    /\ WeightsOnTarget
    /\ \E s \in DOMAIN positions : RequestDelta(s) # RZero
    /\ PlannedOrders = <<>>

\* C17: the order list returned by the planner is the sell orders followed by
\* the buy orders: no sell order appears after a buy order.
C17_PlannerSellsThenBuys ==
    \A i, j \in 1..Len(PlannedOrders) :
        (i < j /\ PlannedOrders[i].quantity > 0) => PlannedOrders[j].quantity > 0

\* C17 witness: the planner met the symbol it buys before the symbol it sells
\* and returned the sell order first.
C17_Witness ==
    /\ plan.op = "calculate_rebalance_orders"
    /\ Len(plan.result.dollar_changes) = 2
    /\ RGt(plan.result.dollar_changes[1].change, RZero)
    /\ RLt(plan.result.dollar_changes[2].change, RZero)
    /\ Len(PlannedOrders) = 2
    /\ PlannedOrders[1].symbol = plan.result.dollar_changes[2].symbol
    /\ PlannedOrders[1].quantity < 0
    /\ PlannedOrders[2].symbol = plan.result.dollar_changes[1].symbol
    /\ PlannedOrders[2].quantity > 0

----------------------------------------------------------------------------
(* Further properties of the driver specification SpecDriver *)

\* C14 (as claimed): an exception raised while planning or executing the
\* orders of one date does not abort the run: in both loops the date-step ends
\* and the loop goes on with the next date, so no run ever stops in an
\* exception.
C14_ExceptionsDoNotAbortTheRun ==
    bt.status \in {"running", "done"}

\* C15 (as claimed): after a completed run of either driver loop the valuation
\* history holds a snapshot for every date of the date axis and for no other
\* date (the history is keyed by date, so there is one snapshot per date).
C15_OneSnapshotPerAxisDate ==
    bt.status = "done" => DOMAIN history = AxisDates

----------------------------------------------------------------------------
(* Properties of single orders of a batch, specification Spec *)

\* the orders of a list at the positions in S, in their order in the list
SubSeqAt(s, S) ==
    LET F[i \in 0..Len(s)] ==
            IF i = 0 THEN <<>>
            ELSE IF i \in S THEN Append(F[i - 1], s[i]) ELSE F[i - 1]
    IN  F[Len(s)]

\* execute_orders called, from the state before the last call, on the orders
\* at the positions in S only
ExecutedAlone(S) ==
    execute_orders(Pf(last.pre_cash, last.pre_positions), <<>>,
                   SubSeqAt(last.orders, S), last.date, last.prices)

\* C21 (as claimed): an order that produces no Trade leaves the Portfolio
\* unchanged: after execute_orders the cash and the positions are what they
\* would be had the batch held only the orders that yielded a Trade (some
\* part of the batch yields a Trade for each of its orders, the same Trades
\* as the whole batch, and the same Portfolio).
C21_NoTradeMeansNoEffect ==
    last.op = "execute_orders" =>
        \E S \in SUBSET (1..Len(last.orders)) :
            \E r \in {ExecutedAlone(S)} :
                /\ Len(r.executed) = Cardinality(S)
                /\ r.executed = last.executed
                /\ r.pf = Pf(cash, positions)

----------------------------------------------------------------------------
(* Properties of delayed execution, specification SpecDriver *)

\* the index of an axis date on the date axis
IndexOf(d) == Cardinality({e \in AxisDates : e <= d})

\* the last date-step of run_backtest planned a non-empty order list under a
\* positive execution delay, and the axis has a date that many trading days on
PlannedWithinAxis ==
    /\ last.op = "run_backtest"
    /\ last.invoked
    /\ last.orders # <<>>
    /\ bt.execution_delay > 0
    /\ IndexOf(last.date) + bt.execution_delay <= AxisLen

\* C22 (as claimed): with execution_delay = k > 0 the orders planned on the
\* axis date at index i are executed for the axis date at index i+k whenever
\* i+k is within the axis, also when calendar days are missing between
\* consecutive axis dates: their execution date is that axis date and they are
\* not dropped.
C22_DelayIsTradingDayOffset ==
    PlannedWithinAxis =>
        /\ last.execution_date = DateAt(IndexOf(last.date) + bt.execution_delay)
        /\ last.date \notin bt.dropped

----------------------------------------------------------------------------
(* Properties of the cash-constrained buys, specification SpecPlanner *)

\* the buy orders the planner returned
PlannedBuys == SelectSeq(PlannedOrders, IsBuy)

\* quantity * price * (1 + slippage_rate) * (1 + commission_rate) of an order
OrderAllInCost(o) ==
    RMul(RMul(RMul(R(o.quantity), plan.prices[o.symbol]),
              RAdd(ROne, slippage_rate)),
         RAdd(ROne, commission_rate))

RECURSIVE SumAllInCost(_)
SumAllInCost(orders) ==
    IF orders = <<>> THEN RZero
    ELSE RAdd(OrderAllInCost(Head(orders)), SumAllInCost(Tail(orders)))

\* 0.999 * (available_cash + cash_freed) for the planner call that was made
BufferedCash ==
    RMul(Frac(999, 1000), RAdd(plan.available_cash, plan.result.cash_freed))

\* C23: the sum over all emitted buy orders of quantity * price *
\* (1 + slippage_rate) * (1 + commission_rate) never exceeds
\* 0.999 * (available_cash + cash_freed), on the unscaled path and on the
\* scaling path with its top-up pass. (A call that emits no buy order has
\* nothing to sum; this is the only outcome when available_cash + cash_freed
\* is not positive.)
C23_BuysFitBufferedCash ==
    (plan.op # "none" /\ PlannedBuys # <<>>) =>
        RLe(SumAllInCost(PlannedBuys), BufferedCash)

\* C23 witness: the scaling path emitted two buy orders, the top-up pass
\* having added shares, and they cost more than 90% of the buffered cash.
C23_Witness ==
    /\ plan.op = "generate_orders"
    /\ plan.result.path = "scaled"
    /\ plan.result.adjusted # plan.result.first_pass
    /\ Len(PlannedBuys) = 2
    /\ RGt(SumAllInCost(PlannedBuys), RMul(Frac(9, 10), BufferedCash))

\* the accepted orders of the scaling path
AcceptedIndices == 1..Len(plan.result.adjusted)
OnScalingPath == plan.op # "none" /\ plan.result.path = "scaled"

\* C24: on the scaling path, for every buy candidate that has an accepted
\* order, the final quantity is <= its raw_qty, and after the top-up pass
\* either the quantity equals raw_qty or the remaining buffered cash is less
\* than one more share's all-in cost for that symbol.
C24_TopUpExhaustsCashOrCap ==
    OnScalingPath =>
        \A i \in AcceptedIndices :
            /\ plan.result.adjusted[i].quantity
                  <= EstimateOf(plan.result.adjusted[i].symbol).quantity
            /\ \/ plan.result.adjusted[i].quantity
                     = EstimateOf(plan.result.adjusted[i].symbol).quantity
               \/ RLt(plan.result.remaining_cash,
                      EstimateOf(plan.result.adjusted[i].symbol).single_share_cost)

\* C24 witness: the top-up pass brought one accepted order up to its raw
\* quantity and left another one below its raw quantity because the cash ran
\* out.
C24_Witness ==
    /\ OnScalingPath
    /\ \E i, j \in AcceptedIndices :
          /\ plan.result.adjusted[i].quantity > plan.result.first_pass[i].quantity
          /\ plan.result.adjusted[i].quantity
                = EstimateOf(plan.result.adjusted[i].symbol).quantity
          /\ plan.result.adjusted[j].quantity
                < EstimateOf(plan.result.adjusted[j].symbol).quantity
          /\ RLt(plan.result.remaining_cash,
                 EstimateOf(plan.result.adjusted[j].symbol).single_share_cost)

\* the buy candidates of the scaling path, in priority order
CandidateIndices == 1..Len(plan.result.estimates)

\* C25 (as claimed): on the scaling path a buy candidate ends with no order
\* only if a single share of it (slippage-adjusted price plus commission) is
\* not affordable from the buffered cash remaining at the end of planning.
C25_NoOrderMeansUnaffordable ==
    OnScalingPath =>
        \A k \in CandidateIndices :
            AcceptedQty(plan.result.adjusted, plan.result.estimates[k].symbol) = 0
                => RGt(plan.result.estimates[k].single_share_cost,
                       plan.result.remaining_cash)

\* the all-in cost of what the proportional pass accepted for candidate j
FirstPassCost(j) ==
    AllInCost(AcceptedQty(plan.result.first_pass, plan.result.estimates[j].symbol),
              plan.result.estimates[j].adjusted_price)

\* the buffered cash left when the proportional pass reaches candidate k
RECURSIVE CashAtTurn(_)
CashAtTurn(k) ==
    IF k = 1 THEN plan.result.buffered_cash
    ELSE RSub(CashAtTurn(k - 1), FirstPassCost(k - 1))

\* the quantity the proportional pass asks for: floor(raw_qty * scaling_factor),
\* but at least one share
AskedQty(k) ==
    IF RFloor(RMul(R(plan.result.estimates[k].quantity), plan.result.scaling_factor)) < 1
    THEN 1
    ELSE RFloor(RMul(R(plan.result.estimates[k].quantity), plan.result.scaling_factor))

\* C25 (amended): on the scaling path a buy candidate ends with an order
\* exactly if, at its turn in the proportional pass, the all-in cost of
\* max(1, floor(raw_qty * scaling_factor)) shares fits the buffered cash then
\* remaining; a candidate that does not fit gets no order at all, and the
\* top-up pass does not come back to it.
C25_NoOrderMeansNoFitAtItsTurn ==
    OnScalingPath =>
        \A k \in CandidateIndices :
            AcceptedQty(plan.result.adjusted, plan.result.estimates[k].symbol) > 0
                <=> RLe(AllInCost(AskedQty(k), plan.result.estimates[k].adjusted_price),
                        CashAtTurn(k))

\* C25 witness: a candidate ends with no order although the cash remaining at
\* the end of planning pays for one share of it.
C25_Witness ==
    /\ OnScalingPath
    /\ \E k \in CandidateIndices :
          /\ AcceptedQty(plan.result.adjusted, plan.result.estimates[k].symbol) = 0
          /\ RLe(plan.result.estimates[k].single_share_cost,
                 plan.result.remaining_cash)

----------------------------------------------------------------------------
(* Properties of the buys of a batch, specification Spec *)

\* the buy orders of the last batch, the buy trades it returned, and the cash
\* with which the buy loop started (the buys are the last trades applied)
BuyOrders == SelectSeq(last.orders, IsBuy)
ExecutedBuys == SelectSeq(last.executed, LAMBDA t : t.quantity > 0)
CashAfterSells == RSub(cash, SumCashDelta(ExecutedBuys))

\* the execution price of a buy and the commission of a quantity at that price
BuyPriceOf(symbol) == RMul(last.prices[symbol], RAdd(ROne, slippage_rate))
CommissionOf(quantity, symbol) ==
    RMul(RMul(R(quantity), BuyPriceOf(symbol)), commission_rate)

\* the cost of the requested quantity with its commission
RequestedCost(order) ==
    RAdd(RMul(R(order.quantity), BuyPriceOf(order.symbol)),
         CommissionOf(order.quantity, order.symbol))

\* the quantity the claim gives a priced buy order for an available cash:
\* the requested one if its cost fits, else
\* floor((available_cash - commission of the requested quantity) / execution price)
QuantityAsClaimed(order, available_cash) ==
    IF RLe(RequestedCost(order), available_cash) THEN order.quantity
    ELSE RFloor(RDiv(RSub(available_cash,
                          CommissionOf(order.quantity, order.symbol)),
                     BuyPriceOf(order.symbol)))

\* the buy trades are what the buy orders give, taken in turn: an order without
\* a price or with a quantity below 1 has no trade, any other order has the
\* next trade, for that quantity; the cash available to the next order is the
\* cash the trade has left
RECURSIVE BuysAsClaimed(_, _, _)
BuysAsClaimed(available_cash, buy_orders, buy_trades) ==
    IF buy_orders = <<>> THEN buy_trades = <<>>
    ELSE IF Head(buy_orders).symbol \notin DOMAIN last.prices
    THEN BuysAsClaimed(available_cash, Tail(buy_orders), buy_trades)
    ELSE IF QuantityAsClaimed(Head(buy_orders), available_cash) < 1
    THEN BuysAsClaimed(available_cash, Tail(buy_orders), buy_trades)
    ELSE /\ buy_trades # <<>>
         /\ Head(buy_trades).symbol = Head(buy_orders).symbol
         /\ Head(buy_trades).quantity
               = QuantityAsClaimed(Head(buy_orders), available_cash)
         /\ BuysAsClaimed(RAdd(available_cash, Head(buy_trades).cash_delta),
                          Tail(buy_orders), Tail(buy_trades))

\* C26: when the requested cost of a buy exceeds the available cash, the
\* executed quantity is floor((available_cash - commission) / execution_price)
\* with the commission of the originally requested quantity, and the order is
\* rejected when that value is below 1; this holds for every buy of a batch,
\* each with the cash available at its turn.
C26_ClipUsesRequestedCommission ==
    last.op = "execute_orders" =>
        BuysAsClaimed(CashAfterSells, BuyOrders, ExecutedBuys)

\* C26 witness: under a positive commission rate one batch held a buy that was
\* clipped and a buy that was rejected for lack of cash.
C26_Witness ==
    /\ last.op = "execute_orders"
    /\ RGt(commission_rate, RZero)
    /\ Len(BuyOrders) = 2
    /\ \A i \in 1..2 : BuyOrders[i].symbol \in DOMAIN last.prices
    /\ Len(ExecutedBuys) = 1
    /\ ExecutedBuys[1].quantity < BuyOrders[1].quantity

\* the requested quantities of the orders behind the buy trades, in the order
\* of the trades (orders without a trade are passed over as in BuysAsClaimed)
RECURSIVE RequestedOfExecuted(_, _, _)
RequestedOfExecuted(available_cash, buy_orders, buy_trades) ==
    IF buy_orders = <<>> \/ buy_trades = <<>> THEN <<>>
    ELSE IF Head(buy_orders).symbol \notin DOMAIN last.prices
    THEN RequestedOfExecuted(available_cash, Tail(buy_orders), buy_trades)
    ELSE IF QuantityAsClaimed(Head(buy_orders), available_cash) < 1
    THEN RequestedOfExecuted(available_cash, Tail(buy_orders), buy_trades)
    ELSE <<Head(buy_orders).quantity>>
         \o RequestedOfExecuted(RAdd(available_cash, Head(buy_trades).cash_delta),
                                Tail(buy_orders), Tail(buy_trades))

RequestedQuantities == RequestedOfExecuted(CashAfterSells, BuyOrders, ExecutedBuys)

\* the j-th buy trade of the batch is for fewer shares than its order requested
ClippedBuy(j) ==
    /\ j \in 1..Len(ExecutedBuys)
    /\ j \in 1..Len(RequestedQuantities)
    /\ ExecutedBuys[j].quantity < RequestedQuantities[j]

\* the trade records the commission c and the cash was charged
\* quantity * execution_price + c
ChargedCommission(trade, c) ==
    /\ trade.commission = c
    /\ trade.cash_delta
          = RNeg(RAdd(RMul(R(trade.quantity), trade.execution_price), c))

\* C27 (as claimed): for a buy clipped for lack of cash, the commission
\* recorded on the Trade and charged to cash is the commission computed once
\* for the requested quantity; it is not re-derived for the clipped quantity.
C27_ClippedBuyPaysRequestedCommission ==
    last.op = "execute_orders" =>
        \A j \in 1..Len(ExecutedBuys) :
            ClippedBuy(j) =>
                ChargedCommission(ExecutedBuys[j],
                                  CommissionOf(RequestedQuantities[j],
                                               ExecutedBuys[j].symbol))

\* C27 (amended): for a buy clipped for lack of cash, the commission recorded
\* on the Trade and charged to cash is re-derived for the clipped quantity:
\* clipped quantity * execution_price * commission_rate. The commission of the
\* requested quantity only enters the computation of the clipped quantity.
C27_ClippedBuyPaysItsOwnCommission ==
    last.op = "execute_orders" =>
        \A j \in 1..Len(ExecutedBuys) :
            ClippedBuy(j) =>
                ChargedCommission(ExecutedBuys[j],
                                  CommissionOf(ExecutedBuys[j].quantity,
                                               ExecutedBuys[j].symbol))

\* C27 witness: a buy was clipped under a positive commission rate and paid
\* less commission than the requested quantity would have cost.
C27_Witness ==
    /\ last.op = "execute_orders"
    /\ \E j \in 1..Len(ExecutedBuys) :
          /\ ClippedBuy(j)
          /\ RGt(ExecutedBuys[j].commission, RZero)
          /\ RLt(ExecutedBuys[j].commission,
                 CommissionOf(RequestedQuantities[j], ExecutedBuys[j].symbol))

\* the buy trades the last batch appended to the TradeLog
LoggedBuys ==
    SelectSeq(SubSeq(trade_log, last.pre_log_len + 1, Len(trade_log)),
              LAMBDA t : t.quantity > 0)

\* the cash left by the first n buy trades of the batch
RECURSIVE CashLeftBy(_)
CashLeftBy(n) ==
    IF n = 0 THEN CashAfterSells
    ELSE RSub(CashLeftBy(n - 1), ExecutedBuys[n].amount)

\* the number of buy trades whose orders come before position k of the buy orders
TradesBefore(f, k) == Cardinality({j \in DOMAIN f : f[j] < k})

\* f assigns to every buy trade the position of its order among the buy
\* orders, in increasing order
InInputOrder(f) ==
    /\ \A i, j \in DOMAIN f : i < j => f[i] < f[j]
    /\ \A j \in DOMAIN f :
          /\ ExecutedBuys[j].symbol = BuyOrders[f[j]].symbol
          /\ ExecutedBuys[j].quantity <= BuyOrders[f[j]].quantity

\* every buy was validated against the cash left by the buys before it: a
\* trade is for the requested quantity exactly if the requested cost fitted
\* that cash, and it fits that cash itself; a priced order without a trade did
\* not fit it
AgainstSharedCash(f) ==
    /\ \A j \in DOMAIN f :
          /\ RLe(ExecutedBuys[j].amount, CashLeftBy(j - 1))
          /\ ExecutedBuys[j].quantity = BuyOrders[f[j]].quantity
                <=> RLe(RequestedCost(BuyOrders[f[j]]), CashLeftBy(j - 1))
    /\ \A k \in 1..Len(BuyOrders) :
          (k \notin {f[j] : j \in DOMAIN f} /\ BuyOrders[k].symbol \in DOMAIN last.prices)
              => RGt(RequestedCost(BuyOrders[k]), CashLeftBy(TradesBefore(f, k)))

\* C28: the buy orders of a batch are processed in input-list order against
\* one shared cash balance: each buy is validated against the cash left by all
\* earlier buys of the batch, and the buy Trades appear in the TradeLog in the
\* same relative order as their orders in the input.
C28_BuysInInputOrderOnSharedCash ==
    last.op = "execute_orders" =>
        /\ LoggedBuys = ExecutedBuys
        /\ \E f \in [1..Len(ExecutedBuys) -> 1..Len(BuyOrders)] :
              InInputOrder(f) /\ AgainstSharedCash(f)

\* C28 witness: two buys of different symbols were executed in one batch; the
\* second one was clipped although the cash with which the buy loop started
\* would have paid for it in full.
C28_Witness ==
    /\ last.op = "execute_orders"
    /\ Len(BuyOrders) = 2
    /\ Len(ExecutedBuys) = 2
    /\ ExecutedBuys[1].symbol # ExecutedBuys[2].symbol
    /\ ExecutedBuys[1].symbol = BuyOrders[1].symbol
    /\ ExecutedBuys[2].quantity < BuyOrders[2].quantity
    /\ RLe(RequestedCost(BuyOrders[2]), CashAfterSells)

----------------------------------------------------------------------------
(* Properties of the planned sells, specification SpecPlanner *)

PlannedSells == SelectSeq(PlannedOrders, IsSell)

\* C29: every sell order emitted by the planner has 1 <= |quantity| <= the
\* quantity of that symbol currently held; no sell order is emitted for a
\* symbol that is not held.
C29_PlannedSellsWithinHoldings ==
    plan.op # "none" =>
        \A i \in 1..Len(PlannedSells) :
            /\ PlannedSells[i].symbol \in DOMAIN positions
            /\ 1 <= -PlannedSells[i].quantity
            /\ -PlannedSells[i].quantity <= positions[PlannedSells[i].symbol].quantity

\* C29 witness: generate_orders was asked to sell more of a held symbol than
\* is held and to sell a symbol that is not held; it emitted one sell order,
\* for the whole holding.
C29_Witness ==
    /\ plan.op = "generate_orders"
    /\ Len(plan.dollar_changes) = 2
    /\ \A i \in 1..2 : plan.dollar_changes[i].change = R(-1000)
    /\ \A i \in 1..2 : plan.dollar_changes[i].symbol \in DOMAIN plan.prices
    /\ \E i \in 1..2 : plan.dollar_changes[i].symbol \notin DOMAIN positions
    /\ Len(PlannedSells) = 1
    /\ -PlannedSells[1].quantity = positions[PlannedSells[1].symbol].quantity

\* C30: planning is pure with respect to the Portfolio: a call of
\* calculate_rebalance_orders leaves the Portfolio's cash, positions map and
\* history unchanged, and the caller's target-weight map is after the call
\* what it was before.
C30_PlanningIsPure ==
    [][(plan.op = "none" /\ plan'.op = "calculate_rebalance_orders") =>
          /\ cash' = cash
          /\ positions' = positions
          /\ history' = history
          /\ plan'.result.target_allocations = plan'.target_allocations]_vars

\* C30 witness: the planner was called for a portfolio holding a symbol that
\* is missing from the target map, and planned to sell it.
C30_Witness ==
    /\ plan.op = "calculate_rebalance_orders"
    /\ ~plan.result.raised
    /\ \E s \in DOMAIN positions :
          /\ s \notin DOMAIN plan.target_allocations
          /\ OrdersFor(s) # <<>>
    /\ DOMAIN plan.target_allocations # {}

----------------------------------------------------------------------------
(* Properties of the planned orders' fields, specification SpecPlanner *)

\* C31 (as claimed): every Order emitted by the planner on planning date d,
\* sell or buy, carries order_date = d and a numeric reference price equal to
\* the current price of its symbol. Every planner call of SpecPlanner is made
\* with order_date 1.
C31_OrdersCarryDateAndPrice ==
    plan.op # "none" =>
        \A i \in 1..Len(PlannedOrders) :
            /\ PlannedOrders[i].order_date = 1
            /\ PlannedOrders[i].symbol \in DOMAIN plan.prices
            /\ PlannedOrders[i].price = NumPrice(plan.prices[PlannedOrders[i].symbol])

----------------------------------------------------------------------------
(* Properties of the position accounting, specification Spec *)

\* the j-th trade returned by the last batch is the only one for its symbol
OnlyTradeOfSymbol(j) ==
    \A i \in ExecutedIndices :
        last.executed[i].symbol = last.executed[j].symbol => i = j

\* (q*c + b*p) / (q + b)
AverageCost(q, c, b, p) ==
    RDiv(RAdd(RMul(R(q), c), RMul(R(b), p)), R(q + b))

\* the position of the trade's symbol after the batch is what the claim says,
\* given the position before the batch
AppliedAsClaimed(t, before, after) ==
    IF t.quantity > 0
    THEN IF t.symbol \in DOMAIN before
         THEN /\ t.symbol \in DOMAIN after
              /\ after[t.symbol].quantity = before[t.symbol].quantity + t.quantity
              /\ after[t.symbol].cost_basis
                    = AverageCost(before[t.symbol].quantity, before[t.symbol].cost_basis,
                                  t.quantity, t.execution_price)
         ELSE /\ t.symbol \in DOMAIN after
              /\ after[t.symbol].quantity = t.quantity
              /\ after[t.symbol].cost_basis = t.execution_price
    ELSE (t.symbol \in DOMAIN before /\ -t.quantity < before[t.symbol].quantity) =>
              /\ t.symbol \in DOMAIN after
              /\ after[t.symbol].quantity = before[t.symbol].quantity + t.quantity
              /\ after[t.symbol].cost_basis = before[t.symbol].cost_basis

\* C32: a buy of b shares at trade price p applied to a position of q shares
\* with cost basis c yields quantity q+b and cost basis (q*c + b*p)/(q+b); a
\* buy of a symbol not held creates a position with quantity b and cost basis
\* p; a partial sell leaves the cost basis unchanged.
C32_WeightedAverageCostBasis ==
    last.op = "execute_orders" =>
        \A j \in ExecutedIndices :
            OnlyTradeOfSymbol(j) =>
                AppliedAsClaimed(last.executed[j], last.pre_positions, positions)

\* C32 witness: a buy was applied to a held position at a price different
\* from the position's cost basis.
C32_Witness ==
    /\ last.op = "execute_orders"
    /\ \E j \in ExecutedIndices :
          /\ OnlyTradeOfSymbol(j)
          /\ last.executed[j].quantity > 0
          /\ last.executed[j].symbol \in DOMAIN last.pre_positions
          /\ last.executed[j].execution_price
                # last.pre_positions[last.executed[j].symbol].cost_basis
          /\ positions[last.executed[j].symbol].cost_basis
                # last.executed[j].execution_price

----------------------------------------------------------------------------
(* Properties of the valuation, specification Spec *)

\* C33: mark_to_market with a price map lacking a held symbol does not fail:
\* that position keeps its previously computed value, every priced position
\* gets the value quantity * price, and the snapshot for the date is still
\* recorded (with the cash and the positions as they are after the call).
C33_UnpricedPositionKeepsValue ==
    last.op = "mark_to_market" =>
        /\ DOMAIN positions = DOMAIN last.pre_positions
        /\ \A s \in DOMAIN positions :
              IF s \in DOMAIN last.prices
              THEN positions[s] =
                      [last.pre_positions[s] EXCEPT
                          !.value = RMul(R(last.pre_positions[s].quantity),
                                         last.prices[s])]
              ELSE positions[s] = last.pre_positions[s]
        /\ last.date \in DOMAIN history
        /\ history[last.date].cash = cash
        /\ history[last.date].positions = positions

\* C33 witness: the portfolio was marked with a price map that lacks one held
\* symbol and gives another held symbol a new value.
C33_Witness ==
    /\ last.op = "mark_to_market"
    /\ \E s \in DOMAIN positions :
          /\ s \notin DOMAIN last.prices
          /\ RGt(positions[s].value, RZero)
    /\ \E s \in DOMAIN positions :
          /\ s \in DOMAIN last.prices
          /\ positions[s].value # last.pre_positions[s].value
    /\ last.date \in DOMAIN history

\* C34: a recorded snapshot is immutable: trades and mark-to-market calls for
\* other dates that happen after the snapshot of date d was recorded never
\* remove it or change its cash, positions or total_value; only a later
\* mark_to_market for the same date d replaces it.
C34_SnapshotsAreImmutable ==
    [][\A d \in DOMAIN history :
          /\ d \in DOMAIN history'
          /\ history'[d] # history[d] =>
                (last'.op = "mark_to_market" /\ last'.date = d)]_vars

\* C34 witness: the portfolio has traded after the snapshot of a date was
\* recorded, and the snapshot still shows the cash and the positions of
\* before the trade.
C34_Witness ==
    /\ last.op = "execute_orders"
    /\ last.executed # <<>>
    /\ \E d \in DOMAIN history :
          /\ history[d].cash = last.pre_cash
          /\ history[d].positions = last.pre_positions
          /\ history[d].cash # cash
          /\ history[d].positions # positions

----------------------------------------------------------------------------
(* The weights history of the driver loops *)

\* the dates of the axis whose iteration of the loop is over
ProcessedDates == {DateAt(j) : j \in {k \in 1..AxisLen : k < bt.i}}

\* a row of the weights history shows the weights of a portfolio: the weight
\* of every held symbol, and nothing for a symbol that is not held
RowShows(row, weights, held) ==
    \A s \in Symbols :
        IF s \in held THEN row[s] = weights[s] ELSE row[s] \in {RZero, NaN}

\* C35: for every date of the axis that a driver loop has gone through,
\* rebalance date or not, the date was marked to market and its row of the
\* weights history holds the weights of the portfolio as the mark-to-market
\* of that date left it.
C35_WeightsRowPerDate ==
    bt.loop # "none" =>
        \A d \in ProcessedDates :
            /\ d \in DOMAIN history
            /\ RowShows(bt.weights_history[d],
                        get_weights(Pf(history[d].cash, history[d].positions), <<>>),
                        DOMAIN history[d].positions)

\* C35 restricted to run_backtest
RunBacktestRowPerDate == bt.loop = "run_backtest" => C35_WeightsRowPerDate

----------------------------------------------------------------------------
(* A rebalance date without target weights *)

\* the last step of run_backtest was a rebalance date without an entry in the
\* source of target weights
RebalanceWithoutTarget ==
    /\ last.op = "run_backtest"
    /\ last.should_rebalance
    /\ last.date \notin DOMAIN bt.signals_dict

\* C36: on a rebalance date for which the source of target weights has no
\* entry, run_backtest plans and executes nothing, the cash is the cash of
\* before the date, the positions are the marked positions with the quantities
\* of before the date, and the loop goes on to the next date (or ends at the
\* last one) without an error.
C36_MissingTargetIsNoOrders ==
    RebalanceWithoutTarget =>
        /\ ~last.invoked
        /\ last.orders = <<>>
        /\ Len(trade_log) = last.pre_log_len
        /\ cash = last.pre_cash
        /\ positions = last.mark_positions
        /\ DOMAIN positions = DOMAIN last.pre_positions
        /\ \A s \in DOMAIN positions :
              positions[s].quantity = last.pre_positions[s].quantity
        /\ bt.status \in {"running", "done"}
        /\ bt.i = IndexOf(last.date) + 1

\* C36 witness: the portfolio held positions on such a date and still holds
\* them.
C36_Witness ==
    /\ RebalanceWithoutTarget
    /\ last.pre_positions # <<>>
    /\ positions # <<>>

----------------------------------------------------------------------------
(* The weights of a portfolio without value *)

\* the total value that get_weights computed in the last call
WeighedTotal == get_total_value(Pf(cash, positions), plan.prices)

\* the degenerate answer: weight 0 for every held symbol, and Cash = 1 exactly
\* when there is neither cash nor a position
DegenerateWeights ==
    /\ DOMAIN plan.weights = DOMAIN positions \cup {"Cash"}
    /\ \A s \in DOMAIN positions : plan.weights[s] = RZero
    /\ plan.weights["Cash"] \in {RZero, ROne}
    /\ plan.weights["Cash"] = ROne <=> (cash = RZero /\ DOMAIN positions = {})

\* C37: when the total value of the portfolio is zero or negative, get_weights
\* returns weight 0 for every held symbol, and Cash = 1 only for a portfolio
\* without cash and without positions.
C37_NonPositiveValueHasZeroWeights ==
    (plan.op = "get_weights" /\ RLe(WeighedTotal, RZero)) => DegenerateWeights

\* C37 restricted to a total value of exactly zero
ZeroValueHasZeroWeights ==
    (plan.op = "get_weights" /\ WeighedTotal = RZero) => DegenerateWeights

----------------------------------------------------------------------------
(* Termination of run_backtest, specification SpecDriverLive *)

\* run_backtest has ended after one iteration for every date of the axis
RunBacktestDone ==
    /\ bt.status = "done"
    /\ bt.i = AxisLen + 1
    /\ DOMAIN history = AxisDates

\* C38: every run of run_backtest reaches its terminal state after one
\* iteration for every date of the axis, whatever the axis and the rebalance
\* schedule are, also when the first rebalance date is later than the first
\* date of the axis.
C38_RunBacktestTerminates ==
    (bt.loop = "run_backtest" /\ bt.status = "running") ~> RunBacktestDone

\* C38 restricted to the schedules that contain the first date of the axis
TerminatesWhenFirstDateRebalances ==
    (bt.loop = "run_backtest" /\ bt.status = "running"
        /\ DateAt(1) \in bt.rebalance_dates) ~> RunBacktestDone

----------------------------------------------------------------------------
(* The value of the portfolio across execute_orders, specification Spec *)

\* cash + sum(quantity * market price) of the portfolio before and after the
\* last call, both at the prices the call was given
ValueBefore == get_total_value(Pf(last.pre_cash, last.pre_positions), last.prices)
ValueAfter == get_total_value(Pf(cash, positions), last.prices)

\* C39: execute_orders never creates value: whatever the orders and the prices
\* are, the value of the portfolio at the prices of the execution date is,
\* after the call, at most what it was before the call.
C39_ExecutionNeverCreatesValue ==
    last.op = "execute_orders" => RLe(ValueAfter, ValueBefore)

\* C39 restricted to the calls that executed buys only
BuysNeverCreateValue ==
    (last.op = "execute_orders"
        /\ \A i \in 1..Len(last.orders) : last.orders[i].quantity > 0)
    => RLe(ValueAfter, ValueBefore)

----------------------------------------------------------------------------
(* Planned orders executed at once, specification SpecDriver *)

\* the last date-step of run_backtest planned orders and executed them at
\* once, on the same portfolio and at the prices they were planned with
ExecutedAtOnce ==
    /\ last.op = "run_backtest"
    /\ last.invoked
    /\ bt.execution_delay = 0
    /\ last.execution_date = last.date

\* the planned order at position i was filled for its full quantity
FilledInFull(i) ==
    \E j \in 1..Len(last.executed) :
        /\ last.executed[j].symbol = last.orders[i].symbol
        /\ last.executed[j].quantity = last.orders[i].quantity

\* C40: when the orders returned by calculate_rebalance_orders are executed at
\* once on the same portfolio at the same prices, every buy order is filled
\* for its full planned quantity, whatever the (non-negative) commission and
\* slippage rates are.
C40_PlannedBuysFilledInFull ==
    ExecutedAtOnce =>
        \A i \in 1..Len(last.orders) :
            last.orders[i].quantity > 0 => FilledInFull(i)

\* C40 restricted to the plans without a sell
BuyOnlyPlansFilledInFull ==
    (ExecutedAtOnce /\ \A i \in 1..Len(last.orders) : last.orders[i].quantity > 0)
    => C40_PlannedBuysFilledInFull

====
